---------------------------- MODULE Spec2Model ----------------------------
(***************************************************************************)
(* Queezy backend: one game room kept as a JSON record in Redis, the       *)
(* socket handlers that read and write it, and GameService's timers.       *)
(*                                                                         *)
(* Every RoomService method is a getRoom (a Redis read) followed by an     *)
(* updateRoom (a Redis write of the modified copy); both are awaited, so   *)
(* other handlers and timer callbacks run in between.  A handler is        *)
(* therefore a process (an entry of procs) that advances one await at a    *)
(* time: each action below is the code from one await to the next.         *)
(*                                                                         *)
(* Not modelled: avatars, jingles, isReady, isHost, the Prisma session     *)
(* archive, logging.  A name is a sequence of characters; a player id is   *)
(* the id of the socket that joined.                                       *)
(***************************************************************************)
EXTENDS Integers, Sequences, FiniteSets, Bags, TLC

VARIABLES
    store,        \* the room record under keys.room(code) in Redis
    sockets,      \* per socket: connected, joined (room channel), socket.data
    procs,        \* handler and timer-callback invocations in flight
    out,          \* what the last step emitted (acks and broadcasts)
    timers,       \* GameService.timers entry of the room
    startTimers,  \* due times of game:start's setTimeouts (kept in no map)
    now,          \* Date.now(), in ms
    events        \* how many client events the server has started to handle

vars == <<store, sockets, procs, out, timers, startTimers, now, events>>

\* GameService's timers and the clock
timing == <<timers, startTimers, now>>

----------------------------------------------------------------------------
(* Bounds of the model *)

MaxProcs == 2
MaxEvents == 3

(* Program constants *)

DefaultQuestionCount == 10
DefaultTimeLimit == 20
DefaultMaxPlayers == 50
DefaultMinPlayers == 2
StartDelay == 2000
RevealDuration == 5000
WINNER_JINGLE_DURATION == 3000
COUNTDOWN_DURATION == 3
BASE_POINTS == 1000
STREAK_BONUS == 100
MAX_STREAK_BONUS == 500

TvSocket == "tv"
PlayerSockets == {"s1", "s2", "s3"}
SocketIds == {TvSocket} \cup PlayerSockets

(* The name each client sends: "A" and "a" differ only in case. *)
ClientName == [s \in PlayerSockets |->
                 CASE s = "s1" -> <<"A">>
                   [] s = "s2" -> <<"a">>
                   [] OTHER -> <<"b">>]

AnswerOptions == {"A", "B", "C", "D"}

(* The sixteen avatars, by name *)
AVATAR_EMOJIS ==
    {"fox", "panda", "lion", "tiger", "frog", "unicorn", "octopus", "butterfly",
     "turtle", "shark", "eagle", "dragon", "flamingo", "whale", "parrot", "koala"}

(* The literal room:rejoin falls back to: in the source it is the four
   characters U+00F0 U+0178 U+00A6 U+0160, not the fox of AVATAR_EMOJIS. *)
RejoinDefaultAvatar == "fox read as windows-1252"

(* [a-zA-Z0-9] and the characters \s matches beyond the space *)
AlphaNumeric ==
    {"A", "B", "C", "D", "E", "F", "G", "H", "I", "J", "K", "L", "M", "N", "O",
     "P", "Q", "R", "S", "T", "U", "V", "W", "X", "Y", "Z",
     "a", "b", "c", "d", "e", "f", "g", "h", "i", "j", "k", "l", "m", "n", "o",
     "p", "q", "r", "s", "t", "u", "v", "w", "x", "y", "z",
     "0", "1", "2", "3", "4", "5", "6", "7", "8", "9"}
WhiteSpace == {" ", "\t", "\n", "\r", "\f"}

----------------------------------------------------------------------------
(* Values *)

LowerChar(c) ==
    CASE c = "A" -> "a"
      [] c = "B" -> "b"
      [] OTHER -> c

\* String.prototype.toLowerCase
ToLowerCase(name) == [i \in DOMAIN name |-> LowerChar(name[i])]

Settings(timeLimit, maxPlayers, minPlayers) ==
    [questionCount |-> DefaultQuestionCount, timeLimit |-> timeLimit,
     difficulty |-> "mixed", category |-> "",
     maxPlayers |-> maxPlayers, minPlayers |-> minPlayers]

\* redis.get found nothing: getRoom returns null
NoRoom ==
    [exists |-> FALSE, tvSocketId |-> "", phase |-> "", players |-> <<>>,
     questions |-> <<>>, currentQuestionIndex |-> 0, currentAnswers |-> <<>>,
     questionStartTime |-> 0, settings |-> Settings(0, 0, 0)]

\* the record createRoom stores (questionStartTime 0 stands for undefined)
NewRoom(tvSocketId) ==
    [exists |-> TRUE, tvSocketId |-> tvSocketId, phase |-> "lobby", players |-> <<>>,
     questions |-> <<>>, currentQuestionIndex |-> 0, currentAnswers |-> <<>>,
     questionStartTime |-> 0,
     settings |-> Settings(DefaultTimeLimit, DefaultMaxPlayers, DefaultMinPlayers)]

\* the Player object room:join and room:rejoin pass to addPlayer
NewPlayer(id, name) ==
    [id |-> id, name |-> name, avatar |-> "fox", score |-> 0, streak |-> 0,
     isConnected |-> TRUE]

NoPlayer == [id |-> "", name |-> <<>>, avatar |-> "", score |-> 0, streak |-> 0,
             isConnected |-> FALSE]

\* playerNameSchema: min(1), max(20), /^[a-zA-Z0-9\s]+$/
playerNameSchema(name) ==
    /\ Len(name) >= 1
    /\ Len(name) <= 20
    /\ \A i \in 1..Len(name) : name[i] \in AlphaNumeric \cup WhiteSpace

\* avatarSchema: AVATAR_EMOJIS.includes(val)
avatarSchema(avatar) == avatar \in AVATAR_EMOJIS

NoSocketData == [connected |-> TRUE, joined |-> FALSE, role |-> "", playerId |-> ""]

\* Array.prototype.find by id: the index of the first match, 0 when none
FindById(players, id) ==
    IF \E i \in DOMAIN players : players[i].id = id
    THEN CHOOSE i \in DOMAIN players :
            /\ players[i].id = id
            /\ \A j \in DOMAIN players : players[j].id = id => i <= j
    ELSE 0

\* Array.prototype.find by case-insensitive name
FindByName(players, name) ==
    IF \E i \in DOMAIN players : ToLowerCase(players[i].name) = ToLowerCase(name)
    THEN CHOOSE i \in DOMAIN players :
            /\ ToLowerCase(players[i].name) = ToLowerCase(name)
            /\ \A j \in DOMAIN players :
                  ToLowerCase(players[j].name) = ToLowerCase(name) => i <= j
    ELSE 0

----------------------------------------------------------------------------
(* Messages: an ack goes to the calling socket, a broadcast to the room *)

Msg(to, ev) ==
    [to |-> to, ev |-> ev, ok |-> TRUE, error |-> "", room |-> NoRoom,
     player |-> NoPlayer, pid |-> "", n |-> 0, total |-> 0, correctAnswer |-> "",
     results |-> <<>>, standings |-> <<>>, winner |-> "", roomCode |-> ""]

\* winner is the playerId of game:finished's winner or of game:reveal's
\* questionWinner, "null" for a questionWinner of null, "" for a message
\* without the field

Ack(s, ev) == Msg(s, ev)

Fail(s, ev, error) == [Msg(s, ev) EXCEPT !.ok = FALSE, !.error = error]

Broadcast(ev) == Msg("room", ev)

----------------------------------------------------------------------------
(* Handler invocations *)

Idle ==
    [op |-> "idle", pc |-> "", sock |-> "", name |-> <<>>, old |-> "", val |-> FALSE,
     room |-> NoRoom, tmp |-> NoRoom, pid |-> "", n |-> 0, arg |-> <<>>, ans |-> "",
     te |-> 0, answers |-> <<>>, results |-> <<>>, standings |-> <<>>, i |-> 0, phase |-> "",
     stale |-> FALSE, before |-> NoRoom]

\* Of a timer callback, stale records whether the room had left the phase the
\* timer was set for when the timer fired; of a game:start handler, te is the
\* time the event arrived; of a timer callback, before is the room as stored
\* when the timer fired. The code reads none of them.

\* The invocations in flight are a bag: two handlers of the same event with the
\* same locals are two invocations.
Running == BagToSet(procs)

HasFree == BagCardinality(procs) < MaxProcs

Spawn(rec) == procs (+) SetToBag({rec})

\* invocation r continues as r2
Become(r, r2) == (procs (-) SetToBag({r})) (+) SetToBag({r2})

End(r) == procs (-) SetToBag({r})

\* a connected socket sends an event and the server starts its handler
Receive(s) ==
    /\ sockets[s].connected
    /\ HasFree
    /\ events < MaxEvents
    /\ events' = events + 1

----------------------------------------------------------------------------
(* RoomService: what each method writes back, given the copy it read *)

\* the duplicate-name check with the toLowerCase calls left out
NameTakenExact(room, name) == \E i \in DOMAIN room.players : room.players[i].name = name

\* addPlayer's duplicate-name check
NameTaken(room, name) == FindByName(room.players, name) # 0

\* addPlayer: room.players.push(player)
AddPlayer(room, player) ==
    [room EXCEPT !.players = Append(room.players, player)]

\* updatePlayerSocketId
UpdatePlayerSocketId(room, oldPlayerId, newPlayerId) ==
    LET i == FindById(room.players, oldPlayerId) IN
    [room EXCEPT !.players[i].id = newPlayerId, !.players[i].isConnected = TRUE]

\* setPlayerConnected
SetPlayerConnected(room, playerId, isConnected) ==
    LET i == FindById(room.players, playerId) IN
    [room EXCEPT !.players[i].isConnected = isConnected]


\* updateSettings: room.settings = { ...room.settings, ...settings }
UpdateSettings(room, settings) ==
    [room EXCEPT !.settings =
        [k \in DOMAIN room.settings |->
            IF k \in DOMAIN settings THEN settings[k] ELSE room.settings[k]]]

----------------------------------------------------------------------------
(* Socket state changes made by the handlers *)

\* socket.join(roomCode); socket.data.playerId = socket.id; socket.data.role = 'player'
JoinAsPlayer(s) ==
    [sockets EXCEPT ![s].joined = TRUE, ![s].role = "player", ![s].playerId = s]

\* the error message of a handler's catch block
CatchError(op) ==
    CASE op = "join" -> "Failed to join room"
      [] op = "rejoin" -> "Failed to rejoin room"
      [] op = "settings" -> "Failed to update settings"
      [] op = "submit" -> "Failed to submit answer"
      [] op = "timeout" -> "Failed to handle timeout"
      [] op = "start" -> "Failed to start game"
      [] op = "end" -> "Failed to end game"
      [] op = "restart" -> "Failed to restart game"
      [] op = "next" -> "Failed to show next question"
      [] op = "pause" -> "Failed to pause game"
      [] op = "options" -> "Failed to set options"
      [] op = "category" -> "Failed to select category"
      [] op = "generate" -> "Failed to generate quiz"
      [] op = "kick" -> "Failed to kick player"
      [] op = "create" -> "Failed to create room"
      [] OTHER -> "Failed"

\* the event a handler invocation serves
EventOf(op) ==
    CASE op = "timeout" -> "answer:timeout"
      [] op = "start" -> "game:start"
      [] op = "end" -> "game:end"
      [] op = "restart" -> "game:restart"
      [] op = "next" -> "game:next-question"
      [] op = "pause" -> "game:pause"
      [] op = "settings" -> "room:update-settings"
      [] op = "options" -> "quiz:set-options"
      [] op = "category" -> "quiz:select-category"
      [] op = "generate" -> "quiz:generate"
      [] op = "kick" -> "room:kick"
      [] OTHER -> op

----------------------------------------------------------------------------
(* room:join *)

\* from the event to the await of roomService.addPlayer
RoomJoin(s, player) ==
    /\ Receive(s)
    /\ LET room == store
           name == player.name IN
       IF ~playerNameSchema(player.name)
       THEN /\ out' = <<Fail(s, "room:join", "Invalid player name")>>
            /\ UNCHANGED procs
       ELSE IF ~avatarSchema(player.avatar)
       THEN /\ out' = <<Fail(s, "room:join", "Invalid avatar")>>
            /\ UNCHANGED procs
       ELSE IF ~room.exists
       THEN /\ out' = <<Fail(s, "room:join", "Room not found")>>
            /\ UNCHANGED procs
       ELSE IF room.phase # "lobby"
       THEN /\ out' = <<Fail(s, "room:join", "Game already in progress")>>
            /\ UNCHANGED procs
       ELSE IF Len(room.players) >= room.settings.maxPlayers
       THEN /\ out' = <<Fail(s, "room:join", "Room is full")>>
            /\ UNCHANGED procs
       ELSE /\ out' = <<>>
            /\ procs' = Spawn([Idle EXCEPT !.op = "join", !.pc = "addPlayer",
                                           !.sock = s, !.name = name,
                                           !.ans = player.avatar,
                                           !.n = Len(room.players)])
    /\ UNCHANGED <<store, sockets, timing>>

\* room:join of a player who picked the fox
JoinStart(s, name) == RoomJoin(s, [name |-> name, avatar |-> "fox"])

\* addPlayer: getRoom and the duplicate-name check; a throw lands in the
\* handler's catch
AddPlayerRead ==
    \E r \in Running :
    /\ r.pc = "addPlayer"
    /\ LET room == store IN
       IF ~room.exists \/ NameTaken(room, r.name)
       THEN /\ out' = <<Fail(r.sock, "room:" \o r.op, CatchError(r.op))>>
            /\ procs' = End(r)
       ELSE /\ out' = <<>>
            /\ procs' = Become(r, [r EXCEPT !.pc = "addPlayer_w", !.tmp = room])
    /\ UNCHANGED <<store, sockets, timing, events>>

\* addPlayer: push and updateRoom; then the handler joins the socket to the
\* room, broadcasts room:player-joined and awaits getRoom for its ack
AddPlayerWrite ==
    \E r \in Running :
    /\ r.pc = "addPlayer_w"
    /\ LET s == r.sock
           newPlayer == [NewPlayer(s, r.name) EXCEPT !.avatar = r.ans] IN
       /\ store' = AddPlayer(r.tmp, newPlayer)
       /\ sockets' = JoinAsPlayer(s)
       /\ out' = <<[Broadcast("room:player-joined") EXCEPT
                        !.player = newPlayer, !.n = r.n + 1]>>
       /\ procs' = Become(r, [r EXCEPT !.pc = "joinAck", !.tmp = NoRoom])
    /\ UNCHANGED <<timing, events>>

\* the ack of room:join and of room:rejoin's new-player path
JoinAck ==
    \E r \in Running :
    /\ r.pc = "joinAck"
    /\ out' = <<[Ack(r.sock, "room:" \o r.op) EXCEPT
                    !.player = [NewPlayer(r.sock, r.name) EXCEPT !.avatar = r.ans],
                    !.room = store]>>
    /\ procs' = End(r)
    /\ UNCHANGED <<store, sockets, timing, events>>

----------------------------------------------------------------------------
(* room:rejoin *)

\* playerAvatar "" stands for a request without the field
RoomRejoin(s, name, playerAvatar) ==
    /\ Receive(s)
    /\ LET room == store
           i == FindByName(room.players, name) IN
       IF name = <<>>
       THEN /\ out' = <<Fail(s, "room:rejoin", "Room code and player name required")>>
            /\ UNCHANGED procs
       ELSE IF ~room.exists
       THEN /\ out' = <<Fail(s, "room:rejoin", "Room not found")>>
            /\ UNCHANGED procs
       ELSE IF i # 0
       THEN /\ out' = <<>>
            /\ procs' = Spawn([Idle EXCEPT !.op = "rejoin", !.pc = "updatePlayerSocketId",
                                           !.sock = s, !.name = name,
                                           !.old = room.players[i].id])
       ELSE IF room.phase # "lobby"
       THEN /\ out' = <<Fail(s, "room:rejoin", "Game already in progress")>>
            /\ UNCHANGED procs
       ELSE IF Len(room.players) >= room.settings.maxPlayers
       THEN /\ out' = <<Fail(s, "room:rejoin", "Room is full")>>
            /\ UNCHANGED procs
       ELSE /\ out' = <<>>
            /\ procs' = Spawn([Idle EXCEPT !.op = "rejoin", !.pc = "addPlayer",
                                           !.sock = s, !.name = name,
                                           !.ans = IF playerAvatar = ""
                                                   THEN RejoinDefaultAvatar
                                                   ELSE playerAvatar,
                                           !.n = Len(room.players)])
    /\ UNCHANGED <<store, sockets, timing>>

\* room:rejoin of a client that sends the avatar it picked, the fox
RejoinStart(s, name) == RoomRejoin(s, name, "fox")

\* updatePlayerSocketId: getRoom and find; nothing is written when the room or
\* the player is gone
UpdatePlayerSocketIdRead ==
    \E r \in Running :
    /\ r.pc = "updatePlayerSocketId"
    /\ LET room == store IN
       IF ~room.exists \/ FindById(room.players, r.old) = 0
       THEN procs' = Become(r, [r EXCEPT !.pc = "setPlayerConnected", !.pid = r.sock,
                                   !.val = TRUE])
       ELSE procs' = Become(r, [r EXCEPT !.pc = "updatePlayerSocketId_w", !.tmp = room])
    /\ out' = <<>>
    /\ UNCHANGED <<store, sockets, timing, events>>

UpdatePlayerSocketIdWrite ==
    \E r \in Running :
    /\ r.pc = "updatePlayerSocketId_w"
    /\ store' = UpdatePlayerSocketId(r.tmp, r.old, r.sock)
    /\ procs' = Become(r, [r EXCEPT !.pc = "setPlayerConnected", !.pid = r.sock,
                              !.val = TRUE, !.tmp = NoRoom])
    /\ out' = <<>>
    /\ UNCHANGED <<sockets, timing, events>>

\* what the caller does when setPlayerConnected returns: room:rejoin joins the
\* socket to the room and awaits getRoom; disconnect broadcasts and ends
AfterSetPlayerConnected(r) ==
    IF r.op = "rejoin"
    THEN /\ sockets' = JoinAsPlayer(r.sock)
         /\ out' = <<>>
         /\ procs' = Become(r, [r EXCEPT !.pc = "rejoinAck", !.tmp = NoRoom])
    ELSE /\ UNCHANGED sockets
         /\ out' = <<[Broadcast("room:player-disconnected") EXCEPT !.pid = r.pid]>>
         /\ procs' = End(r)

\* setPlayerConnected: getRoom and find
SetPlayerConnectedRead ==
    \E r \in Running :
    /\ r.pc = "setPlayerConnected"
    /\ LET room == store IN
       IF ~room.exists \/ FindById(room.players, r.pid) = 0
       THEN AfterSetPlayerConnected(r)
       ELSE /\ procs' = Become(r, [r EXCEPT !.pc = "setPlayerConnected_w", !.tmp = room])
            /\ out' = <<>>
            /\ UNCHANGED sockets
    /\ UNCHANGED <<store, timing, events>>

SetPlayerConnectedWrite ==
    \E r \in Running :
    /\ r.pc = "setPlayerConnected_w"
    /\ store' = SetPlayerConnected(r.tmp, r.pid, r.val)
    /\ AfterSetPlayerConnected(r)
    /\ UNCHANGED <<timing, events>>

\* room:rejoin of an existing player: the final getRoom, the broadcast, the ack
RejoinAck ==
    \E r \in Running :
    /\ r.pc = "rejoinAck"
    /\ LET updatedRoom == store
           i == FindById(updatedRoom.players, r.sock)
           updatedPlayer == IF i = 0 THEN NoPlayer ELSE updatedRoom.players[i] IN
       out' = <<[Broadcast("room:player-rejoined") EXCEPT
                    !.pid = r.old, !.player = updatedPlayer],
                [Ack(r.sock, "room:rejoin") EXCEPT
                    !.player = updatedPlayer, !.room = updatedRoom]>>
    /\ procs' = End(r)
    /\ UNCHANGED <<store, sockets, timing, events>>

----------------------------------------------------------------------------
(* disconnect *)

Disconnect(s) ==
    /\ Receive(s)
    /\ sockets' = [sockets EXCEPT ![s].connected = FALSE]
    /\ IF ~sockets[s].joined \/ ~store.exists
       THEN out' = <<>> /\ UNCHANGED procs
       ELSE IF sockets[s].role = "tv"
       THEN out' = <<Broadcast("room:tv-disconnected")>> /\ UNCHANGED procs
       ELSE IF sockets[s].playerId # ""
       THEN /\ out' = <<>>
            /\ procs' = Spawn([Idle EXCEPT !.op = "disconnect", !.pc = "setPlayerConnected",
                                           !.sock = s, !.pid = sockets[s].playerId,
                                           !.val = FALSE])
       ELSE out' = <<>> /\ UNCHANGED procs
    /\ UNCHANGED <<store, timing>>

----------------------------------------------------------------------------
(* room:update-settings *)

SettingsUpdates == {[maxPlayers |-> 1]}

UpdateSettingsStart(s, settings) ==
    /\ Receive(s)
    /\ IF ~store.exists
       THEN /\ out' = <<Fail(s, "room:update-settings", "Room not found")>>
            /\ UNCHANGED procs
       ELSE IF sockets[s].role # "tv"
       THEN /\ out' = <<Fail(s, "room:update-settings", "Only host can update settings")>>
            /\ UNCHANGED procs
       ELSE /\ out' = <<>>
            /\ procs' = Spawn([Idle EXCEPT !.op = "settings", !.pc = "updateSettings",
                                           !.sock = s, !.arg = settings])
    /\ UNCHANGED <<store, sockets, timing>>

UpdateSettingsRead ==
    \E r \in Running :
    /\ r.pc = "updateSettings"
    /\ IF ~store.exists
       THEN /\ out' = <<Fail(r.sock, EventOf(r.op), CatchError(r.op))>>
            /\ procs' = End(r)
       ELSE /\ out' = <<>>
            /\ procs' = Become(r, [r EXCEPT !.pc = "updateSettings_w", !.tmp = store])
    /\ UNCHANGED <<store, sockets, timing, events>>

UpdateSettingsWrite ==
    \E r \in Running :
    /\ r.pc = "updateSettings_w"
    /\ store' = UpdateSettings(r.tmp, r.arg)
    /\ out' = IF r.op = "settings"
              THEN <<Broadcast("room:settings-updated"), Ack(r.sock, "room:update-settings")>>
              ELSE <<Ack(r.sock, "quiz:set-options")>>
    /\ procs' = End(r)
    /\ UNCHANGED <<sockets, timing, events>>

----------------------------------------------------------------------------
(* The lobby: a room just created by the TV; players join, rejoin and drop *)

NoTimer == [kind |-> "none", due |-> 0, tickAt |-> 0, timeRemaining |-> 0]

\* a pending setTimeout of GameService.timers with no interval beside it
Timeout(kind, due) == [NoTimer EXCEPT !.kind = kind, !.due = due]

\* what showQuestion registers at time t: the interval of GameService.timerIntervals,
\* first due a second later with its counter at timeLimit, and the deadline
QuestionTimer(t, timeLimit) ==
    [kind |-> "question", due |-> t + (timeLimit + 1) * 1000,
     tickAt |-> t + 1000, timeRemaining |-> timeLimit]

Init ==
    /\ store = NewRoom(TvSocket)
    /\ sockets = [s \in SocketIds |->
                    IF s = TvSocket
                    THEN [NoSocketData EXCEPT !.joined = TRUE, !.role = "tv"]
                    ELSE NoSocketData]
    /\ procs = EmptyBag
    /\ out = <<>>
    /\ timers = NoTimer
    /\ startTimers = <<>>
    /\ now = 0
    /\ events = 0

Next ==
    \/ \E s \in PlayerSockets : JoinStart(s, ClientName[s])
    \/ \E s \in PlayerSockets : RejoinStart(s, ClientName[s])
    \/ \E s \in PlayerSockets : Disconnect(s)
    \/ AddPlayerRead
    \/ AddPlayerWrite
    \/ JoinAck
    \/ UpdatePlayerSocketIdRead
    \/ UpdatePlayerSocketIdWrite
    \/ SetPlayerConnectedRead
    \/ SetPlayerConnectedWrite
    \/ RejoinAck

Spec == Init /\ [][Next]_vars

----------------------------------------------------------------------------
(* The lobby with a TV that lowers maxPlayers (room:update-settings) *)

NextRoomFull ==
    \/ \E settings \in SettingsUpdates : UpdateSettingsStart(TvSocket, settings)
    \/ UpdateSettingsRead
    \/ UpdateSettingsWrite
    \/ \E s \in PlayerSockets : JoinStart(s, ClientName[s])
    \/ \E s \in PlayerSockets : RejoinStart(s, ClientName[s])
    \/ AddPlayerRead
    \/ AddPlayerWrite
    \/ JoinAck
    \/ UpdatePlayerSocketIdRead
    \/ UpdatePlayerSocketIdWrite
    \/ SetPlayerConnectedRead
    \/ SetPlayerConnectedWrite
    \/ RejoinAck

SpecRoomFull == Init /\ [][NextRoomFull]_vars

----------------------------------------------------------------------------
(* ScoreService *)

Min(a, b) == IF a <= b THEN a ELSE b

\* calculatePoints, in integers: Math.floor(BASE_POINTS * timeRatio * 0.5) with
\* timeRatio = max(0, 1 - timeElapsed / (timeLimit * 1000))
\* The time bonus is computed in integers; on the elapsed times that occur here
\* it equals the floor of the double product the code computes.
calculatePoints(isCorrect, timeElapsed, timeLimit, streak) ==
    IF ~isCorrect THEN 0
    ELSE LET limitMs == timeLimit * 1000
             timeBonus == IF timeElapsed >= limitMs THEN 0
                          ELSE (BASE_POINTS * (limitMs - timeElapsed)) \div (2 * limitMs)
             streakBonus == Min(streak * STREAK_BONUS, MAX_STREAK_BONUS)
         IN BASE_POINTS + timeBonus + streakBonus

\* answers.find(a => a.playerId === id): index of the first one, 0 if none
FindAnswer(answers, id) ==
    IF \E i \in DOMAIN answers : answers[i].playerId = id
    THEN CHOOSE i \in DOMAIN answers :
            /\ answers[i].playerId = id
            /\ \A j \in DOMAIN answers : answers[j].playerId = id => i <= j
    ELSE 0

\* answers.filter(a => a.questionIndex === questionIndex)
AnswersOf(answers, questionIndex) ==
    SelectSeq(answers, LAMBDA a : a.questionIndex = questionIndex)

\* one entry of calculateQuestionResults; answer "" is null, and a timeElapsed
\* of 0 is replaced by the whole time limit (answer?.timeElapsed || ...)
ResultOf(player, question, answers, settings) ==
    LET timeLimit == IF question.timeLimit # 0 THEN question.timeLimit
                     ELSE settings.timeLimit
        k == FindAnswer(answers, player.id)
        given == IF k = 0 THEN "" ELSE answers[k].answer
        isCorrect == given = question.correctAnswer
        timeElapsed == IF k = 0 \/ answers[k].timeElapsed = 0 THEN timeLimit * 1000
                       ELSE answers[k].timeElapsed
        points == calculatePoints(isCorrect, timeElapsed, timeLimit, player.streak)
    IN [playerId |-> player.id, answer |-> given, isCorrect |-> isCorrect,
        pointsEarned |-> points, newScore |-> player.score + points,
        streak |-> IF isCorrect THEN player.streak + 1 ELSE 0,
        timeElapsed |-> IF k = 0 THEN 0 ELSE answers[k].timeElapsed]

\* Array.prototype.sort with a descending comparator, a stable sort: the
\* positions 1..Len(keys) ordered by key, equal keys in their original order
RECURSIVE InsertDesc(_, _, _)
InsertDesc(sorted, x, keys) ==
    IF sorted = <<>> THEN <<x>>
    ELSE IF keys[Head(sorted)] >= keys[x]
         THEN <<Head(sorted)>> \o InsertDesc(Tail(sorted), x, keys)
         ELSE <<x>> \o sorted

RECURSIVE SortDesc(_, _)
SortDesc(n, keys) ==
    IF n = 0 THEN <<>> ELSE InsertDesc(SortDesc(n - 1, keys), n, keys)

\* calculateQuestionResults on the room it reads
calculateQuestionResults(room, question, answers) ==
    LET results == [i \in DOMAIN room.players |->
                       ResultOf(room.players[i], question, answers, room.settings)]
        order == SortDesc(Len(results), [i \in DOMAIN results |-> results[i].pointsEarned])
    IN [i \in DOMAIN order |-> results[order[i]]]

\* a leaderboard whose sort puts the later of two players of equal score first
getLeaderboardLastFirst(room) ==
    LET n == Len(room.players)
        order == SortDesc(n, [i \in DOMAIN room.players |-> room.players[n + 1 - i].score])
    IN [i \in DOMAIN order |->
           [playerId |-> room.players[n + 1 - order[i]].id,
            name |-> room.players[n + 1 - order[i]].name,
            avatar |-> room.players[n + 1 - order[i]].avatar,
            score |-> room.players[n + 1 - order[i]].score, rank |-> i]]

\* getLeaderboard on the room it reads; the sort is of the copy getRoom parsed,
\* which is not written back
getLeaderboard(room) ==
    LET order == SortDesc(Len(room.players),
                          [i \in DOMAIN room.players |-> room.players[i].score])
    IN [i \in DOMAIN order |->
           [playerId |-> room.players[order[i]].id, name |-> room.players[order[i]].name,
            avatar |-> room.players[order[i]].avatar,
            score |-> room.players[order[i]].score, rank |-> i]]

----------------------------------------------------------------------------
(* RoomService methods of the game *)

RecordAnswer(room, answer) ==
    [room EXCEPT !.currentAnswers = Append(@, answer)]

UpdatePlayerScore(room, playerId, points, isCorrect) ==
    LET i == FindById(room.players, playerId) IN
    [room EXCEPT !.players[i].score = @ + points,
                 !.players[i].streak = IF isCorrect THEN @ + 1 ELSE 0]

UpdatePhase(room, phase) == [room EXCEPT !.phase = phase]

ClearCurrentAnswers(room) == [room EXCEPT !.currentAnswers = <<>>]

nextQuestion(room) ==
    [room EXCEPT !.currentQuestionIndex = @ + 1, !.currentAnswers = <<>>]

SetQuestionStartTime(room, startTime) == [room EXCEPT !.questionStartTime = startTime]

\* the timeLimit every generated question is given, whatever the room's settings
QuestionTimeLimit == 20

\* a question as quizService returns it
Question(correctAnswer) ==
    [correctAnswer |-> correctAnswer, timeLimit |-> QuestionTimeLimit]

\* no question: undefined, with no timeLimit (0 stands for undefined)
NoQuestion == [correctAnswer |-> "", timeLimit |-> 0]

\* room.questions[index], undefined (NoQuestion) past the end
QuestionAt(room, index) ==
    IF index + 1 \in DOMAIN room.questions THEN room.questions[index + 1] ELSE NoQuestion

----------------------------------------------------------------------------
(* answer:submit *)

\* socket.data.playerId || socket.id
PlayerIdOf(s) == IF sockets[s].playerId # "" THEN sockets[s].playerId ELSE s

HasAnswered(room, playerId) ==
    \E i \in DOMAIN room.currentAnswers :
        /\ room.currentAnswers[i].playerId = playerId
        /\ room.currentAnswers[i].questionIndex = room.currentQuestionIndex

\* from the event to the await of roomService.recordAnswer: the answer's
\* validation, getRoom, the phase check, the existing-answer check, the answer
\* record
SubmitStart(s, answer) ==
    /\ Receive(s)
    /\ LET room == store
           playerId == PlayerIdOf(s) IN
       IF answer \notin AnswerOptions
       THEN /\ out' = <<Fail(s, "answer:submit", "Invalid answer")>>
            /\ UNCHANGED procs
       ELSE IF ~room.exists
       THEN /\ out' = <<Fail(s, "answer:submit", "Room not found")>>
            /\ UNCHANGED procs
       ELSE IF room.phase # "question"
       THEN /\ out' = <<Fail(s, "answer:submit", "Not accepting answers")>>
            /\ UNCHANGED procs
       ELSE IF HasAnswered(room, playerId)
       THEN /\ out' = <<Fail(s, "answer:submit", "Already answered")>>
            /\ UNCHANGED procs
       ELSE /\ out' = <<>>
            /\ procs' = Spawn([Idle EXCEPT
                   !.op = "submit", !.pc = "recordAnswer", !.sock = s,
                   !.pid = playerId, !.n = room.currentQuestionIndex, !.ans = answer,
                   !.te = now - (IF room.questionStartTime # 0
                                 THEN room.questionStartTime ELSE now)])
    /\ UNCHANGED <<store, sockets, timing>>

\* recordAnswer: getRoom
RecordAnswerRead ==
    \E r \in Running :
    /\ r.pc = "recordAnswer"
    /\ IF ~store.exists
       THEN /\ out' = <<Fail(r.sock, "answer:submit", CatchError(r.op))>>
            /\ procs' = End(r)
       ELSE /\ out' = <<>>
            /\ procs' = Become(r, [r EXCEPT !.pc = "recordAnswer_w", !.tmp = store])
    /\ UNCHANGED <<store, sockets, timing, events>>

\* recordAnswer: push and updateRoom; the handler then awaits getRoom
RecordAnswerWrite ==
    \E r \in Running :
    /\ r.pc = "recordAnswer_w"
    /\ store' = RecordAnswer(r.tmp, [playerId |-> r.pid, questionIndex |-> r.n,
                                     answer |-> r.ans, timeElapsed |-> r.te])
    /\ out' = <<>>
    /\ procs' = Become(r, [r EXCEPT !.pc = "answerCount", !.tmp = NoRoom])
    /\ UNCHANGED <<sockets, timing, events>>

\* players.filter(p => p.isConnected).length
ConnectedPlayers(room) ==
    Len(SelectSeq(room.players, LAMBDA p : p.isConnected))

\* the handler's second getRoom, its broadcasts and its ack; when every
\* connected player has answered it also broadcasts answer:all-received
AnswerCount ==
    \E r \in Running :
    /\ r.pc = "answerCount"
    /\ LET updatedRoom == store
           connectedPlayers == ConnectedPlayers(updatedRoom)
           answerCount == Len(AnswersOf(updatedRoom.currentAnswers, r.n))
           counts(ev) == [Broadcast(ev) EXCEPT !.pid = r.pid, !.n = answerCount,
                                               !.total = connectedPlayers]
           sent == <<counts("player:answered"), counts("answer:received"),
                     Ack(r.sock, "answer:submit")>> IN
       IF ~updatedRoom.exists
       THEN out' = <<Fail(r.sock, "answer:submit", CatchError(r.op))>>
       ELSE IF answerCount >= connectedPlayers
       THEN out' = sent \o <<Broadcast("answer:all-received")>>
       ELSE out' = sent
    /\ procs' = End(r)
    /\ UNCHANGED <<store, sockets, timing, events>>

----------------------------------------------------------------------------
(* Resolving a question: GameService.questionTimeout and answer:timeout *)

\* the event a handler invocation serves
\* an exception in a socket handler is caught and acked as a failure; in a
\* timer callback it ends the callback
Throw(r) ==
    /\ out' = IF r.sock # "" THEN <<Fail(r.sock, EventOf(r.op), CatchError(r.op))>>
              ELSE <<>>
    /\ procs' = End(r)

\* answer:timeout, from the event to the await of calculateQuestionResults
TimeoutStart(s) ==
    /\ Receive(s)
    /\ LET room == store IN
       IF ~room.exists
       THEN /\ out' = <<Fail(s, "answer:timeout", "Room not found")>>
            /\ UNCHANGED procs
       ELSE IF sockets[s].role # "tv"
       THEN /\ out' = <<Fail(s, "answer:timeout", "Only TV can trigger timeout")>>
            /\ UNCHANGED procs
       ELSE /\ out' = <<>>
            /\ procs' = Spawn([Idle EXCEPT
                   !.op = "timeout", !.pc = "calculateQuestionResults", !.sock = s,
                   !.room = room, !.n = room.currentQuestionIndex,
                   !.answers = AnswersOf(room.currentAnswers, room.currentQuestionIndex)])
    /\ UNCHANGED <<store, sockets, timing>>

\* questionTimeout: getRoom and the phase check
QuestionTimeoutRead ==
    \E r \in Running :
    /\ r.pc = "questionTimeout"
    /\ LET room == store IN
       IF ~room.exists
       THEN procs' = End(r)
       ELSE IF room.phase # "question"
       THEN procs' = End(r)
       ELSE procs' = Become(r, [r EXCEPT
                !.pc = "calculateQuestionResults", !.room = room,
                !.n = room.currentQuestionIndex,
                !.answers = AnswersOf(room.currentAnswers, room.currentQuestionIndex)])
    /\ out' = <<>>
    /\ UNCHANGED <<store, sockets, timing, events>>

\* the invocation at result i of the loop over results, or past the loop:
\* questionTimeout goes on to getLeaderboard, answer:timeout to updatePhase
AtResult(r, i) ==
    IF i <= Len(r.results)
    THEN [r EXCEPT !.pc = "updatePlayerScore", !.i = i, !.tmp = NoRoom]
    ELSE IF r.op = "timeout"
    THEN [r EXCEPT !.pc = "updatePhase", !.phase = "reveal", !.i = i, !.tmp = NoRoom]
    ELSE [r EXCEPT !.pc = "getLeaderboard", !.i = i, !.tmp = NoRoom]

\* calculateQuestionResults: its own getRoom and the results
CalculateQuestionResultsRead ==
    \E r \in Running :
    /\ r.pc = "calculateQuestionResults"
    /\ LET room == store
           question == QuestionAt(r.room, r.n) IN
       IF ~room.exists
       THEN Throw(r)
       ELSE IF question = NoQuestion
       THEN Throw(r)
       ELSE /\ out' = <<>>
            /\ procs' = Become(r, AtResult(
                   [r EXCEPT !.results = calculateQuestionResults(room, question, r.answers)],
                   1))
    /\ UNCHANGED <<store, sockets, timing, events>>

\* updatePlayerScore: getRoom and find; nothing is written for a player who
\* is not found
UpdatePlayerScoreRead ==
    \E r \in Running :
    /\ r.pc = "updatePlayerScore"
    /\ LET room == store IN
       IF ~room.exists
       THEN Throw(r)
       ELSE IF FindById(room.players, r.results[r.i].playerId) = 0
       THEN /\ out' = <<>>
            /\ procs' = Become(r, AtResult(r, r.i + 1))
       ELSE /\ out' = <<>>
            /\ procs' = Become(r, [r EXCEPT !.pc = "updatePlayerScore_w", !.tmp = room])
    /\ UNCHANGED <<store, sockets, timing, events>>

UpdatePlayerScoreWrite ==
    \E r \in Running :
    /\ r.pc = "updatePlayerScore_w"
    /\ LET result == r.results[r.i] IN
       store' = UpdatePlayerScore(r.tmp, result.playerId, result.pointsEarned,
                                  result.isCorrect)
    /\ out' = <<>>
    /\ procs' = Become(r, AtResult(r, r.i + 1))
    /\ UNCHANGED <<sockets, timing, events>>

\* questionTimeout's winnerPlayer: the first correct result with points, looked
\* up among the players of the room read at the start
\* the playerId of the first of the correct results sorted by pointsEarned,
\* highest first; "" when no result is correct
questionWinner(results) ==
    LET winners == SelectSeq(results, LAMBDA x : x.isCorrect /\ x.pointsEarned > 0)
        order == SortDesc(Len(winners), [i \in DOMAIN winners |-> winners[i].pointsEarned])
    IN IF winners = <<>> THEN "" ELSE winners[order[1]].playerId

\* winnerPlayer is looked up in the room that questionTimeout read first
HasWinnerPlayer(r) ==
    /\ questionWinner(r.results) # ""
    /\ FindById(r.room.players, questionWinner(r.results)) # 0

\* game:reveal; its results carry no timeElapsed
Reveal(r, standings) ==
    [Broadcast("game:reveal") EXCEPT
        !.correctAnswer = QuestionAt(r.room, r.n).correctAnswer,
        !.results = [i \in DOMAIN r.results |->
                        [playerId |-> r.results[i].playerId,
                         answer |-> r.results[i].answer,
                         isCorrect |-> r.results[i].isCorrect,
                         pointsEarned |-> r.results[i].pointsEarned,
                         newScore |-> r.results[i].newScore,
                         streak |-> r.results[i].streak]],
        !.standings = standings]

\* getLeaderboard: getRoom and sort. questionTimeout goes on to updatePhase;
\* answer:timeout broadcasts game:reveal and acks; endGame broadcasts
\* game:finished
GetLeaderboardRead ==
    \E r \in Running :
    /\ r.pc = "getLeaderboard"
    /\ LET standings == IF store.exists THEN getLeaderboard(store) ELSE <<>> IN
       IF r.phase = "final"
       THEN /\ out' = <<[Broadcast("game:finished") EXCEPT
                           !.standings = standings,
                           !.winner = IF standings = <<>> THEN ""
                                      ELSE standings[1].playerId]>>
            /\ procs' = IF r.op \in {"end", "next"}
                        THEN Become(r, [r EXCEPT !.pc = "endAck"])
                        ELSE End(r)
       ELSE IF r.op = "timeout"
       THEN /\ out' = <<Reveal(r, standings), Ack(r.sock, "answer:timeout")>>
            /\ procs' = End(r)
       ELSE /\ out' = <<>>
            /\ procs' = Become(r, [r EXCEPT !.pc = "updatePhase", !.phase = "reveal",
                                      !.standings = standings,
                                      !.val = HasWinnerPlayer(r)])
    /\ UNCHANGED <<store, sockets, timing, events>>

\* updatePhase: getRoom
UpdatePhaseRead ==
    \E r \in Running :
    /\ r.pc = "updatePhase"
    /\ IF ~store.exists
       THEN Throw(r)
       ELSE /\ out' = <<>>
            /\ procs' = Become(r, [r EXCEPT !.pc = "updatePhase_w", !.tmp = store])
    /\ UNCHANGED <<store, sockets, timing, events>>

\* updatePhase: updateRoom, and what its caller does up to its next await.
\* showQuestion broadcasts game:question and sets the deadline timer at
\* (timeLimit + 1) seconds; questionTimeout broadcasts game:reveal and sets the
\* auto-advance timer; startGame goes on to create the game session; game:pause broadcasts and
\* acks;
\* answer:timeout and endGame go on to getLeaderboard
UpdatePhaseWrite ==
    \E r \in Running :
    /\ r.pc = "updatePhase_w"
    /\ store' = UpdatePhase(r.tmp, r.phase)
    /\ IF r.phase = "question"
       THEN /\ out' = <<[Broadcast("game:question") EXCEPT
                            !.n = r.n, !.total = Len(r.room.questions)]>>
                       \o (IF r.op = "next" THEN <<Ack(r.sock, "game:next-question")>>
                           ELSE <<>>)
            /\ timers' = QuestionTimer(now, r.room.settings.timeLimit)
            /\ procs' = End(r)
       ELSE IF r.phase = "reveal" /\ r.op # "timeout"
       THEN /\ out' = <<[Reveal(r, r.standings) EXCEPT
                           !.winner = IF r.val THEN questionWinner(r.results) ELSE "null"]>>
            /\ timers' = Timeout("reveal",
                                 now + (IF r.val
                                        THEN RevealDuration + WINNER_JINGLE_DURATION
                                        ELSE RevealDuration))
            /\ procs' = End(r)
       ELSE IF r.phase = "starting"
       THEN /\ out' = <<>>
            /\ UNCHANGED timers
            /\ procs' = Become(r, [r EXCEPT !.pc = "gameSession", !.tmp = NoRoom])
       ELSE IF r.phase = "lobby"
       THEN /\ out' = <<Broadcast("game:paused"), Ack(r.sock, "game:pause")>>
            /\ UNCHANGED timers
            /\ procs' = End(r)
       ELSE /\ out' = <<>>
            /\ UNCHANGED timers
            /\ procs' = Become(r, [r EXCEPT !.pc = "getLeaderboard", !.tmp = NoRoom])
    /\ UNCHANGED <<sockets, startTimers, now, events>>

----------------------------------------------------------------------------
(* GameService timers, advanceToNextQuestion, showQuestion, endGame *)

\* the timer of GameService.timers comes due: the question deadline runs
\* questionTimeout, the reveal timer runs advanceToNextQuestion. The entry of a
\* timer that has fired stays in the map until the next clearTimer, where
\* clearing it does nothing; it is NoTimer here.
TimerFire ==
    /\ timers.kind # "none"
    /\ now >= timers.due
    /\ timers' = NoTimer
    /\ procs' = Spawn(IF timers.kind = "question"
                      THEN [Idle EXCEPT !.op = "questionTimeout", !.pc = "questionTimeout",
                                        !.stale = store.phase # "question",
                                        !.before = store]
                      ELSE [Idle EXCEPT !.op = "advance", !.pc = "nextQuestion",
                                        !.stale = store.phase # "reveal",
                                        !.before = store])
    /\ out' = <<>>
    /\ UNCHANGED <<store, sockets, startTimers, now, events>>

\* nextQuestion: getRoom
NextQuestionRead ==
    \E r \in Running :
    /\ r.pc = "nextQuestion"
    /\ IF ~store.exists
       THEN Throw(r)
       ELSE /\ out' = <<>>
            /\ procs' = Become(r, [r EXCEPT !.pc = "nextQuestion_w", !.tmp = store])
    /\ UNCHANGED <<store, sockets, timing, events>>

\* endGame up to its getRoom: clearTimer
EnterEndGame(r) ==
    /\ timers' = NoTimer
    /\ procs' = Become(r, [r EXCEPT !.pc = "endGame", !.tmp = NoRoom])

\* nextQuestion: updateRoom; advanceToNextQuestion then calls showQuestion or
\* endGame
NextQuestionWrite ==
    \E r \in Running :
    /\ r.pc = "nextQuestion_w"
    /\ store' = nextQuestion(r.tmp)
    /\ IF store'.currentQuestionIndex < Len(store'.questions)
       THEN /\ procs' = Become(r, [r EXCEPT !.pc = "showQuestion", !.tmp = NoRoom])
            /\ UNCHANGED timers
       ELSE EnterEndGame(r)
    /\ out' = <<>>
    /\ UNCHANGED <<sockets, startTimers, now, events>>

\* showQuestion: getRoom; with no question at the index it calls endGame
ShowQuestionRead ==
    \E r \in Running :
    /\ r.pc = "showQuestion"
    /\ LET room == store IN
       IF ~room.exists
       THEN /\ procs' = End(r)
            /\ UNCHANGED timers
       ELSE IF QuestionAt(room, room.currentQuestionIndex) = NoQuestion
       THEN EnterEndGame(r)
       ELSE /\ procs' = Become(r, [r EXCEPT !.pc = "clearCurrentAnswers", !.room = room,
                                      !.n = room.currentQuestionIndex])
            /\ UNCHANGED timers
    /\ out' = <<>>
    /\ UNCHANGED <<store, sockets, startTimers, now, events>>

ClearCurrentAnswersRead ==
    \E r \in Running :
    /\ r.pc = "clearCurrentAnswers"
    /\ IF ~store.exists
       THEN procs' = End(r)
       ELSE procs' = Become(r, [r EXCEPT !.pc = "clearCurrentAnswers_w", !.tmp = store])
    /\ out' = <<>>
    /\ UNCHANGED <<store, sockets, timing, events>>

\* clearCurrentAnswers: updateRoom; showQuestion then takes startTime = Date.now()
ClearCurrentAnswersWrite ==
    \E r \in Running :
    /\ r.pc = "clearCurrentAnswers_w"
    /\ store' = ClearCurrentAnswers(r.tmp)
    /\ procs' = Become(r, [r EXCEPT !.pc = "setQuestionStartTime", !.te = now,
                              !.tmp = NoRoom])
    /\ out' = <<>>
    /\ UNCHANGED <<sockets, timing, events>>

SetQuestionStartTimeRead ==
    \E r \in Running :
    /\ r.pc = "setQuestionStartTime"
    /\ IF ~store.exists
       THEN procs' = End(r)
       ELSE procs' = Become(r, [r EXCEPT !.pc = "setQuestionStartTime_w", !.tmp = store])
    /\ out' = <<>>
    /\ UNCHANGED <<store, sockets, timing, events>>

\* setQuestionStartTime: updateRoom; showQuestion then awaits updatePhase
SetQuestionStartTimeWrite ==
    \E r \in Running :
    /\ r.pc = "setQuestionStartTime_w"
    /\ store' = SetQuestionStartTime(r.tmp, r.te)
    /\ procs' = Become(r, [r EXCEPT !.pc = "updatePhase", !.phase = "question",
                              !.tmp = NoRoom])
    /\ out' = <<>>
    /\ UNCHANGED <<sockets, timing, events>>

\* endGame: getRoom, then updatePhase('final')
EndGameRead ==
    \E r \in Running :
    /\ r.pc = "endGame"
    /\ IF ~store.exists
       THEN procs' = End(r)
       ELSE procs' = Become(r, [r EXCEPT !.pc = "updatePhase", !.phase = "final",
                                   !.room = store])
    /\ out' = <<>>
    /\ UNCHANGED <<store, sockets, timing, events>>

----------------------------------------------------------------------------
(* game:start *)

\* game:start with the player count compared by <= instead of <
GameStartStartStrict(s) ==
    /\ Receive(s)
    /\ LET room == store IN
       IF ~room.exists
       THEN /\ out' = <<Fail(s, "game:start", "Room not found")>>
            /\ UNCHANGED procs
       ELSE IF sockets[s].role # "tv"
       THEN /\ out' = <<Fail(s, "game:start", "Only host can start game")>>
            /\ UNCHANGED procs
       ELSE IF Len(room.players) <= room.settings.minPlayers
       THEN /\ out' = <<Fail(s, "game:start", "Need at least minPlayers players to start")>>
            /\ UNCHANGED procs
       ELSE IF Len(room.questions) = 0
       THEN /\ out' = <<Fail(s, "game:start", "No questions loaded")>>
            /\ UNCHANGED procs
       ELSE /\ out' = <<>>
            /\ procs' = Spawn([Idle EXCEPT !.op = "start", !.pc = "startGame", !.sock = s,
                                           !.room = room, !.te = now])
    /\ UNCHANGED <<store, sockets, timing>>

\* from the event to the await of gameService.startGame: getRoom and the checks
GameStartStart(s) ==
    /\ Receive(s)
    /\ LET room == store IN
       IF ~room.exists
       THEN /\ out' = <<Fail(s, "game:start", "Room not found")>>
            /\ UNCHANGED procs
       ELSE IF sockets[s].role # "tv"
       THEN /\ out' = <<Fail(s, "game:start", "Only host can start game")>>
            /\ UNCHANGED procs
       ELSE IF Len(room.players) < room.settings.minPlayers
       THEN /\ out' = <<Fail(s, "game:start", "Need at least minPlayers players to start")>>
            /\ UNCHANGED procs
       ELSE IF Len(room.questions) = 0
       THEN /\ out' = <<Fail(s, "game:start", "No questions loaded")>>
            /\ UNCHANGED procs
       ELSE /\ out' = <<>>
            /\ procs' = Spawn([Idle EXCEPT !.op = "start", !.pc = "startGame", !.sock = s,
                                           !.room = room, !.te = now])
    /\ UNCHANGED <<store, sockets, timing>>

\* startGame: getRoom, then updatePhase('starting')
StartGameRead ==
    \E r \in Running :
    /\ r.pc = "startGame"
    /\ IF ~store.exists
       THEN Throw(r)
       ELSE /\ out' = <<>>
            /\ procs' = Become(r, [r EXCEPT !.pc = "updatePhase", !.phase = "starting"])
    /\ UNCHANGED <<store, sockets, timing, events>>

\* startGame's prisma.gameSession.create returns (a failure is only logged); the
\* handler broadcasts game:started, acks, and sets the timeout of StartDelay
\* that will call showQuestion
GameSessionCreated ==
    \E r \in Running :
    /\ r.pc = "gameSession"
    /\ out' = <<[Broadcast("game:started") EXCEPT !.n = 0, !.total = Len(r.room.questions)],
                Ack(r.sock, "game:start")>>
    /\ startTimers' = Append(startTimers, now + StartDelay)
    /\ procs' = End(r)
    /\ UNCHANGED <<store, sockets, timers, now, events>>

\* a timeout set by game:start comes due and calls showQuestion
StartTimerFire ==
    /\ startTimers # <<>>
    /\ now >= Head(startTimers)
    /\ startTimers' = Tail(startTimers)
    /\ procs' = Spawn([Idle EXCEPT !.op = "show", !.pc = "showQuestion",
                                   !.stale = store.phase # "starting"])
    /\ out' = <<>>
    /\ UNCHANGED <<store, sockets, timers, now, events>>

----------------------------------------------------------------------------
(* game:end and game:restart *)

\* from the event to endGame's getRoom: the handler's getRoom, the role check,
\* endGame's clearTimer
GameEndStart(s) ==
    /\ Receive(s)
    /\ IF ~store.exists
       THEN /\ out' = <<Fail(s, "game:end", "Room not found")>>
            /\ UNCHANGED <<procs, timers>>
       ELSE IF sockets[s].role # "tv"
       THEN /\ out' = <<Fail(s, "game:end", "Only host can end game")>>
            /\ UNCHANGED <<procs, timers>>
       ELSE /\ out' = <<>>
            /\ timers' = NoTimer
            /\ procs' = Spawn([Idle EXCEPT !.op = "end", !.pc = "endGame", !.sock = s])
    /\ UNCHANGED <<store, sockets, startTimers, now>>

\* endGame's session archive is written; the handler that called endGame
\* (game:end, or game:next-question past the last question) acks
GameEndAck ==
    \E r \in Running :
    /\ r.pc = "endAck"
    /\ out' = <<Ack(r.sock, EventOf(r.op))>>
    /\ procs' = End(r)
    /\ UNCHANGED <<store, sockets, timing, events>>

resetRoom(room) ==
    [room EXCEPT !.phase = "lobby", !.questions = <<>>, !.currentQuestionIndex = 0,
                 !.currentAnswers = <<>>, !.questionStartTime = 0,
                 !.players = [i \in DOMAIN room.players |->
                                 [room.players[i] EXCEPT !.score = 0, !.streak = 0]]]

\* from the event to the await of resetRoom: the handler's getRoom, the role
\* check, restartGame's clearTimer
GameRestartStart(s) ==
    /\ Receive(s)
    /\ IF ~store.exists
       THEN /\ out' = <<Fail(s, "game:restart", "Room not found")>>
            /\ UNCHANGED <<procs, timers>>
       ELSE IF sockets[s].role # "tv"
       THEN /\ out' = <<Fail(s, "game:restart", "Only host can restart")>>
            /\ UNCHANGED <<procs, timers>>
       ELSE /\ out' = <<>>
            /\ timers' = NoTimer
            /\ procs' = Spawn([Idle EXCEPT !.op = "restart", !.pc = "resetRoom", !.sock = s])
    /\ UNCHANGED <<store, sockets, startTimers, now>>

\* resetRoom: getRoom
ResetRoomRead ==
    \E r \in Running :
    /\ r.pc = "resetRoom"
    /\ IF ~store.exists
       THEN Throw(r)
       ELSE /\ out' = <<>>
            /\ procs' = Become(r, [r EXCEPT !.pc = "resetRoom_w", !.tmp = store])
    /\ UNCHANGED <<store, sockets, timing, events>>

\* resetRoom: updateRoom; the handler broadcasts game:restarted and acks
ResetRoomWrite ==
    \E r \in Running :
    /\ r.pc = "resetRoom_w"
    /\ store' = resetRoom(r.tmp)
    /\ out' = <<Broadcast("game:restarted"), Ack(r.sock, "game:restart")>>
    /\ procs' = End(r)
    /\ UNCHANGED <<sockets, timing, events>>

----------------------------------------------------------------------------
(* game:next-question, game:pause, game:resume *)

\* from the event to showQuestion's getRoom
GameNextQuestionStart(s) ==
    /\ Receive(s)
    /\ IF ~store.exists
       THEN /\ out' = <<Fail(s, "game:next-question", "Room not found")>>
            /\ UNCHANGED procs
       ELSE IF sockets[s].role # "tv"
       THEN /\ out' = <<Fail(s, "game:next-question", "Only host can control game")>>
            /\ UNCHANGED procs
       ELSE /\ out' = <<>>
            /\ procs' = Spawn([Idle EXCEPT !.op = "next", !.pc = "showQuestion", !.sock = s])
    /\ UNCHANGED <<store, sockets, timing>>

\* from the event to updatePhase's getRoom: pauseGame's clearTimer
GamePauseStart(s) ==
    /\ Receive(s)
    /\ IF ~store.exists
       THEN /\ out' = <<Fail(s, "game:pause", "Room not found")>>
            /\ UNCHANGED <<procs, timers>>
       ELSE IF sockets[s].role # "tv"
       THEN /\ out' = <<Fail(s, "game:pause", "Only host can pause")>>
            /\ UNCHANGED <<procs, timers>>
       ELSE /\ out' = <<>>
            /\ timers' = NoTimer
            /\ procs' = Spawn([Idle EXCEPT !.op = "pause", !.pc = "updatePhase",
                                           !.sock = s, !.phase = "lobby"])
    /\ UNCHANGED <<store, sockets, startTimers, now>>

\* resumeGame only logs
GameResumeStart(s) ==
    /\ Receive(s)
    /\ IF ~store.exists
       THEN out' = <<Fail(s, "game:resume", "Room not found")>>
       ELSE IF sockets[s].role # "tv"
       THEN out' = <<Fail(s, "game:resume", "Only host can resume")>>
       ELSE out' = <<Broadcast("game:resumed"), Ack(s, "game:resume")>>
    /\ UNCHANGED <<store, sockets, procs, timing>>

----------------------------------------------------------------------------
(* quiz:set-options, quiz:select-category, quiz:generate *)

\* { ...room.settings, ...(questionCount && { questionCount }), ... }: an
\* option of 0 or "" is left out
MergeOptions(settings, options) ==
    [settings EXCEPT
        !.questionCount = IF options.questionCount # 0 THEN options.questionCount ELSE @,
        !.difficulty = IF options.difficulty # "" THEN options.difficulty ELSE @,
        !.timeLimit = IF options.timeLimit # 0 THEN options.timeLimit ELSE @]

\* quiz:set-options passes the merged settings to updateSettings
SetOptionsStart(s, options) ==
    /\ Receive(s)
    /\ IF ~store.exists
       THEN /\ out' = <<Fail(s, "quiz:set-options", "Room not found")>>
            /\ UNCHANGED procs
       ELSE IF sockets[s].role # "tv"
       THEN /\ out' = <<Fail(s, "quiz:set-options", "Only host can set options")>>
            /\ UNCHANGED procs
       ELSE /\ out' = <<>>
            /\ procs' = Spawn([Idle EXCEPT !.op = "options", !.pc = "updateSettings",
                                           !.sock = s,
                                           !.arg = MergeOptions(store.settings, options)])
    /\ UNCHANGED <<store, sockets, timing>>

UpdateCategory(room, categoryId) == [room EXCEPT !.settings.category = categoryId]

SelectCategoryStart(s, categoryId) ==
    /\ Receive(s)
    /\ IF ~store.exists
       THEN /\ out' = <<Fail(s, "quiz:select-category", "Room not found")>>
            /\ UNCHANGED procs
       ELSE IF sockets[s].role # "tv"
       THEN /\ out' = <<Fail(s, "quiz:select-category", "Only host can select category")>>
            /\ UNCHANGED procs
       ELSE /\ out' = <<>>
            /\ procs' = Spawn([Idle EXCEPT !.op = "category", !.pc = "updateCategory",
                                           !.sock = s, !.ans = categoryId])
    /\ UNCHANGED <<store, sockets, timing>>

UpdateCategoryRead ==
    \E r \in Running :
    /\ r.pc = "updateCategory"
    /\ IF ~store.exists
       THEN Throw(r)
       ELSE /\ out' = <<>>
            /\ procs' = Become(r, [r EXCEPT !.pc = "updateCategory_w", !.tmp = store])
    /\ UNCHANGED <<store, sockets, timing, events>>

UpdateCategoryWrite ==
    \E r \in Running :
    /\ r.pc = "updateCategory_w"
    /\ store' = UpdateCategory(r.tmp, r.ans)
    /\ out' = <<Broadcast("quiz:category-selected"), Ack(r.sock, "quiz:select-category")>>
    /\ procs' = End(r)
    /\ UNCHANGED <<sockets, timing, events>>

\* quizGenerateSchema: category non-empty, questionCount in 5..30, difficulty
\* one of the enum or absent ("")
QuizGenerateValid(request) ==
    /\ request.category # ""
    /\ request.questionCount >= 5
    /\ request.questionCount <= 30
    /\ request.difficulty \in {"", "easy", "medium", "hard", "mixed"}

SetQuestions(room, questions, category) ==
    [room EXCEPT !.questions = questions, !.settings.category = category,
                 !.currentQuestionIndex = 0]

\* from the event to the await of the question provider
GenerateStart(s, request) ==
    /\ Receive(s)
    /\ IF ~QuizGenerateValid(request)
       THEN /\ out' = <<Fail(s, "quiz:generate", "Validation")>>
            /\ UNCHANGED procs
       ELSE IF ~store.exists
       THEN /\ out' = <<Fail(s, "quiz:generate", "Room not found")>>
            /\ UNCHANGED procs
       ELSE IF sockets[s].role # "tv"
       THEN /\ out' = <<Fail(s, "quiz:generate", "Only host can generate quiz")>>
            /\ UNCHANGED procs
       ELSE /\ out' = <<Broadcast("quiz:generating")>>
            /\ procs' = Spawn([Idle EXCEPT !.op = "generate", !.pc = "generateQuiz",
                                           !.sock = s, !.ans = request.category])
    /\ UNCHANGED <<store, sockets, timing>>

\* the provider returns the questions, or none, or fails
GenerateQuizDone(questions, failed) ==
    \E r \in Running :
    /\ r.pc = "generateQuiz"
    /\ IF failed
       THEN /\ out' = <<Broadcast("quiz:error"), Fail(r.sock, "quiz:generate", CatchError(r.op))>>
            /\ procs' = End(r)
       ELSE IF Len(questions) = 0
       THEN /\ out' = <<Fail(r.sock, "quiz:generate", "Failed to generate questions")>>
            /\ procs' = End(r)
       ELSE /\ out' = <<>>
            /\ procs' = Become(r, [r EXCEPT !.pc = "setQuestions", !.answers = questions])
    /\ UNCHANGED <<store, sockets, timing, events>>

SetQuestionsRead ==
    \E r \in Running :
    /\ r.pc = "setQuestions"
    /\ IF ~store.exists
       THEN /\ out' = <<Broadcast("quiz:error"), Fail(r.sock, "quiz:generate", CatchError(r.op))>>
            /\ procs' = End(r)
       ELSE /\ out' = <<>>
            /\ procs' = Become(r, [r EXCEPT !.pc = "setQuestions_w", !.tmp = store])
    /\ UNCHANGED <<store, sockets, timing, events>>

SetQuestionsWrite ==
    \E r \in Running :
    /\ r.pc = "setQuestions_w"
    /\ store' = SetQuestions(r.tmp, r.answers, r.ans)
    /\ out' = <<[Broadcast("quiz:generated") EXCEPT !.n = Len(r.answers)],
                [Ack(r.sock, "quiz:generate") EXCEPT !.n = Len(r.answers)]>>
    /\ procs' = End(r)
    /\ UNCHANGED <<sockets, timing, events>>

----------------------------------------------------------------------------
(* room:kick *)

RemovePlayer(room, playerId) ==
    [room EXCEPT !.players = SelectSeq(@, LAMBDA p : p.id # playerId)]

RoomKickStart(s, playerId) ==
    /\ Receive(s)
    /\ IF ~store.exists
       THEN /\ out' = <<Fail(s, "room:kick", "Room not found")>>
            /\ UNCHANGED procs
       ELSE IF sockets[s].role # "tv" /\ store.tvSocketId # s
       THEN /\ out' = <<Fail(s, "room:kick", "Only host can kick players")>>
            /\ UNCHANGED procs
       ELSE /\ out' = <<>>
            /\ procs' = Spawn([Idle EXCEPT !.op = "kick", !.pc = "removePlayer", !.sock = s,
                                           !.pid = playerId, !.n = Len(store.players)])
    /\ UNCHANGED <<store, sockets, timing>>

RemovePlayerRead ==
    \E r \in Running :
    /\ r.pc = "removePlayer"
    /\ IF ~store.exists
       THEN /\ out' = <<[Msg(r.pid, "room:kicked") EXCEPT !.pid = r.pid],
                        [Broadcast("room:player-left") EXCEPT !.pid = r.pid, !.n = r.n - 1],
                        Ack(r.sock, "room:kick")>>
            /\ procs' = End(r)
       ELSE /\ out' = <<>>
            /\ procs' = Become(r, [r EXCEPT !.pc = "removePlayer_w", !.tmp = store])
    /\ UNCHANGED <<store, sockets, timing, events>>

\* removePlayer: updateRoom; the handler tells the kicked socket and the room
RemovePlayerWrite ==
    \E r \in Running :
    /\ r.pc = "removePlayer_w"
    /\ store' = RemovePlayer(r.tmp, r.pid)
    /\ out' = <<[Msg(r.pid, "room:kicked") EXCEPT !.pid = r.pid],
                [Broadcast("room:player-left") EXCEPT !.pid = r.pid, !.n = r.n - 1],
                Ack(r.sock, "room:kick")>>
    /\ procs' = End(r)
    /\ UNCHANGED <<sockets, timing, events>>

----------------------------------------------------------------------------
(* The clock *)

\* the end of the current question's window
WindowEnd == store.questionStartTime + store.settings.timeLimit * 1000

\* Time moves on to the millisecond before the end of the question's window, to
\* the millisecond after it, or to the instant a pending timer is due, and
\* never past a timer that is due.
Instants ==
    (IF store.phase = "question" THEN {WindowEnd - 1, WindowEnd + 1} ELSE {})
        \cup (IF timers.kind # "none" THEN {timers.due} ELSE {})
        \cup {startTimers[i] : i \in DOMAIN startTimers}

\* The interval's callback awaits nothing and touches no room: the runs of it
\* that come due while time moves on to t are part of that step. The run that
\* brings timeRemaining to 0 or below clears the interval and emits timer:end.
IntervalRuns(t) ==
    IF timers.tickAt = 0 \/ t < timers.tickAt
    THEN 0
    ELSE Min((t - timers.tickAt) \div 1000 + 1,
             IF timers.timeRemaining > 1 THEN timers.timeRemaining ELSE 1)

IntervalEnds(runs) == runs > 0 /\ timers.timeRemaining - runs <= 0

TimerTicks(runs) ==
    [j \in 1..runs |-> [Broadcast("timer:tick") EXCEPT !.n = timers.timeRemaining - j]]
        \o (IF IntervalEnds(runs) THEN <<Broadcast("timer:end")>> ELSE <<>>)

Tick ==
    /\ \E t \in Instants :
          /\ t > now
          /\ timers.kind # "none" => t <= timers.due
          /\ \A i \in DOMAIN startTimers : t <= startTimers[i]
          /\ now' = t
          /\ out' = TimerTicks(IntervalRuns(t))
          /\ timers' = IF IntervalEnds(IntervalRuns(t))
                       THEN [timers EXCEPT !.tickAt = 0, !.timeRemaining = 0]
                       ELSE [timers EXCEPT
                               !.tickAt = @ + 1000 * IntervalRuns(t),
                               !.timeRemaining = @ - IntervalRuns(t)]
    /\ UNCHANGED <<store, sockets, procs, startTimers, events>>

----------------------------------------------------------------------------
(* A game under way: two players, two questions. Nobody answered the first
   question, shown StartDelay after game:start; its deadline passed, the reveal
   is over and the second question is shown. Of the events the server has
   received, the game:start that began the game is counted. *)

Questions == <<Question("A"), Question("B")>>

\* the players' sockets, and the answers they send: the right one and a wrong
\* one of each question
Players == {"s1", "s3"}

Answers == {"A", "B"}

\* the instant the first question's reveal timer is due
RevealEnd == StartDelay + (DefaultTimeLimit + 1) * 1000 + RevealDuration

GameRoom ==
    [NewRoom(TvSocket) EXCEPT
        !.players = <<NewPlayer("s1", ClientName["s1"]),
                      NewPlayer("s3", ClientName["s3"])>>,
        !.questions = Questions,
        !.questionStartTime = StartDelay]

GameSockets ==
    [s \in SocketIds |->
        IF s = TvSocket
        THEN [NoSocketData EXCEPT !.joined = TRUE, !.role = "tv"]
        ELSE IF s \in Players
        THEN [NoSocketData EXCEPT !.joined = TRUE, !.role = "player", !.playerId = s]
        ELSE NoSocketData]

\* the second (and last) question has just been shown
InitQuestion ==
    /\ store = [GameRoom EXCEPT !.phase = "question", !.currentQuestionIndex = 1,
                                !.questionStartTime = RevealEnd]
    /\ sockets = GameSockets
    /\ procs = EmptyBag
    /\ out = <<>>
    /\ timers = QuestionTimer(RevealEnd, DefaultTimeLimit)
    /\ startTimers = <<>>
    /\ now = RevealEnd
    /\ events = 1

\* the first question is revealed and its reveal timer is due
InitReveal ==
    /\ store = [GameRoom EXCEPT !.phase = "reveal"]
    /\ sockets = GameSockets
    /\ procs = EmptyBag
    /\ out = <<>>
    /\ timers = Timeout("reveal", RevealEnd)
    /\ startTimers = <<>>
    /\ now = RevealEnd
    /\ events = 1

\* the last question running on its timers while players answer and the TV
\* sends answer:timeout; after the last question nextQuestion leaves no question
\* to show, so showQuestion is not called
NextGame ==
    \/ \E s \in Players : \E answer \in Answers : SubmitStart(s, answer)
    \/ RecordAnswerRead
    \/ RecordAnswerWrite
    \/ AnswerCount
    \/ TimerFire
    \/ QuestionTimeoutRead
    \/ CalculateQuestionResultsRead
    \/ UpdatePlayerScoreRead
    \/ UpdatePlayerScoreWrite
    \/ GetLeaderboardRead
    \/ UpdatePhaseRead
    \/ UpdatePhaseWrite
    \/ NextQuestionRead
    \/ NextQuestionWrite
    \/ EndGameRead
    \/ Tick
    \/ TimeoutStart(TvSocket)

SpecGame == InitQuestion /\ [][NextGame]_vars

\* the step from one question to the next, with no time passing, while players
\* reconnect and drop
NextShow ==
    \/ \E s \in PlayerSockets : RejoinStart(s, ClientName[s])
    \/ \E s \in Players : Disconnect(s)
    \/ UpdatePlayerSocketIdRead
    \/ UpdatePlayerSocketIdWrite
    \/ SetPlayerConnectedRead
    \/ SetPlayerConnectedWrite
    \/ RejoinAck
    \/ TimerFire
    \/ NextQuestionRead
    \/ NextQuestionWrite
    \/ ShowQuestionRead
    \/ ClearCurrentAnswersRead
    \/ ClearCurrentAnswersWrite
    \/ SetQuestionStartTimeRead
    \/ SetQuestionStartTimeWrite
    \/ UpdatePhaseRead
    \/ UpdatePhaseWrite

SpecShow == InitReveal /\ [][NextShow]_vars

----------------------------------------------------------------------------
(* The lobby before a game: one or two players have joined (minPlayers is 2)
   and the questions are loaded or not. The TV and a player send game:start
   while a further player joins. *)

\* the second player joined as "c" from a socket that sends nothing further
LobbyPlayers == <<NewPlayer("s1", ClientName["s1"]), NewPlayer("s0", <<"c">>)>>

LobbySockets(k) ==
    [s \in SocketIds |->
        IF s = TvSocket
        THEN [NoSocketData EXCEPT !.joined = TRUE, !.role = "tv"]
        ELSE IF \E i \in 1..k : LobbyPlayers[i].id = s
        THEN [NoSocketData EXCEPT !.joined = TRUE, !.role = "player", !.playerId = s]
        ELSE NoSocketData]

InitLobby ==
    /\ \E k \in {DefaultMinPlayers - 1, DefaultMinPlayers} :
       \E qs \in {<<>>, Questions} :
          /\ store = [NewRoom(TvSocket) EXCEPT !.players = SubSeq(LobbyPlayers, 1, k),
                                              !.questions = qs]
          /\ sockets = LobbySockets(k)
    /\ procs = EmptyBag
    /\ out = <<>>
    /\ timers = NoTimer
    /\ startTimers = <<>>
    /\ now = 0
    /\ events = 0

NextStart ==
    \/ \E s \in {TvSocket, "s1"} : GameStartStart(s)
    \/ JoinStart("s3", ClientName["s3"])
    \/ AddPlayerRead
    \/ AddPlayerWrite
    \/ JoinAck
    \/ StartGameRead
    \/ UpdatePhaseRead
    \/ UpdatePhaseWrite
    \/ GameSessionCreated
    \/ StartTimerFire
    \/ ShowQuestionRead
    \/ ClearCurrentAnswersRead
    \/ ClearCurrentAnswersWrite
    \/ SetQuestionStartTimeRead
    \/ SetQuestionStartTimeWrite
    \/ Tick

SpecStart == InitLobby /\ [][NextStart]_vars

----------------------------------------------------------------------------
(* The host's controls: from a lobby of two players with the questions loaded
   the TV sends game:start, game:end and game:restart, up to the deadline of
   the first question. *)

InitHost ==
    /\ store = [NewRoom(TvSocket) EXCEPT !.players = LobbyPlayers, !.questions = Questions]
    /\ sockets = LobbySockets(Len(LobbyPlayers))
    /\ procs = EmptyBag
    /\ out = <<>>
    /\ timers = NoTimer
    /\ startTimers = <<>>
    /\ now = 0
    /\ events = 0

NextHost ==
    \/ GameStartStart(TvSocket)
    \/ GameEndStart(TvSocket)
    \/ GameRestartStart(TvSocket)
    \/ StartGameRead
    \/ GameSessionCreated
    \/ StartTimerFire
    \/ ShowQuestionRead
    \/ ClearCurrentAnswersRead
    \/ ClearCurrentAnswersWrite
    \/ SetQuestionStartTimeRead
    \/ SetQuestionStartTimeWrite
    \/ UpdatePhaseRead
    \/ UpdatePhaseWrite
    \/ GetLeaderboardRead
    \/ EndGameRead
    \/ GameEndAck
    \/ ResetRoomRead
    \/ ResetRoomWrite
    \/ Tick

SpecHost == InitHost /\ [][NextHost]_vars

----------------------------------------------------------------------------
(* The deadline of the last question with one answer in: the first player
   answered correctly after a second, the other did not answer, and the
   deadline timer is due. Meanwhile the first player's name is rejoined from
   a second socket and from the first again. Of the events the server has
   received, the game:start that began the game is counted. *)

InitAnswered ==
    /\ store = [GameRoom EXCEPT
                   !.phase = "question", !.currentQuestionIndex = 1,
                   !.questionStartTime = RevealEnd,
                   !.currentAnswers = <<[playerId |-> "s1", questionIndex |-> 1,
                                         answer |-> Questions[2].correctAnswer,
                                         timeElapsed |-> 1000]>>]
    /\ sockets = GameSockets
    /\ procs = EmptyBag
    /\ out = <<>>
    /\ timers = Timeout("question", RevealEnd + (DefaultTimeLimit + 1) * 1000)
    /\ startTimers = <<>>
    /\ now = RevealEnd + (DefaultTimeLimit + 1) * 1000
    /\ events = 1

NextRejoin ==
    \/ \E s \in {"s1", "s2"} : RejoinStart(s, ClientName[s])
    \/ UpdatePlayerSocketIdRead
    \/ UpdatePlayerSocketIdWrite
    \/ SetPlayerConnectedRead
    \/ SetPlayerConnectedWrite
    \/ RejoinAck
    \/ TimerFire
    \/ QuestionTimeoutRead
    \/ CalculateQuestionResultsRead
    \/ UpdatePlayerScoreRead
    \/ UpdatePlayerScoreWrite
    \/ GetLeaderboardRead
    \/ UpdatePhaseRead
    \/ UpdatePhaseWrite

SpecRejoin == InitAnswered /\ [][NextRejoin]_vars

----------------------------------------------------------------------------
(* Authority: while the last question is open, a player's socket and a socket
   that never joined send every host-only event and room:kick; the TV pauses,
   resumes and kicks. Of the events the server has received, the game:start
   that began the game is counted. *)

SettingsPatches == {[timeLimit |-> 30], [timeLimit |-> 61], [questionCount |-> 4]}
OptionsInputs ==
    {[questionCount |-> 5, difficulty |-> "easy", timeLimit |-> 0],
     [questionCount |-> 31, difficulty |-> "extreme", timeLimit |-> 4]}
GenerateRequests == {[category |-> "science", questionCount |-> 5, difficulty |-> ""]}
Categories == {"science"}

NextAuth ==
    \/ \E s \in {"s1", "s2"} : GameStartStart(s)
    \/ \E s \in {"s1", "s2"} : GameNextQuestionStart(s)
    \/ \E s \in {"s1", "s2", TvSocket} : GamePauseStart(s)
    \/ \E s \in {"s1", "s2", TvSocket} : GameResumeStart(s)
    \/ \E s \in {"s1", "s2"} : GameEndStart(s)
    \/ \E s \in {"s1", "s2"} : GameRestartStart(s)
    \/ \E s \in {"s1", "s2"} : TimeoutStart(s)
    \/ \E s \in {"s1", "s2"} : \E settings \in SettingsPatches : UpdateSettingsStart(s, settings)
    \/ \E s \in {"s1", "s2"} : \E request \in GenerateRequests : GenerateStart(s, request)
    \/ \E s \in {"s1", "s2"} : \E c \in Categories : SelectCategoryStart(s, c)
    \/ \E s \in {"s1", "s2"} : \E options \in OptionsInputs : SetOptionsStart(s, options)
    \/ \E s \in {"s1", "s2", TvSocket} : \E p \in Players : RoomKickStart(s, p)
    \/ UpdatePhaseRead
    \/ UpdatePhaseWrite
    \/ RemovePlayerRead
    \/ RemovePlayerWrite

SpecAuth == InitQuestion /\ [][NextAuth]_vars

----------------------------------------------------------------------------
(* Settings: in the lobby the TV sends room:update-settings and
   quiz:set-options with values inside and outside the ranges. *)

NextSettings ==
    \/ \E settings \in SettingsPatches : UpdateSettingsStart(TvSocket, settings)
    \/ \E options \in OptionsInputs : SetOptionsStart(TvSocket, options)
    \/ UpdateSettingsRead
    \/ UpdateSettingsWrite

SpecSettings == Init /\ [][NextSettings]_vars

----------------------------------------------------------------------------
(* The names scenario: clients send names and avatars of every kind to
   room:join and room:rejoin of an empty lobby. *)

LongName == [i \in 1..21 |-> "b"]

PlayerInputs ==
    {[name |-> <<"b">>, avatar |-> "panda"],
     [name |-> <<"b", "!">>, avatar |-> "fox"],
     [name |-> <<"b", "\t">>, avatar |-> "fox"],
     [name |-> LongName, avatar |-> "fox"],
     [name |-> <<"c">>, avatar |-> "robot"],
     [name |-> <<"d">>, avatar |-> ""],
     [name |-> <<>>, avatar |-> "fox"]}

NextNames ==
    \/ \E p \in PlayerInputs : RoomJoin("s1", p)
    \/ \E p \in PlayerInputs : RoomRejoin("s2", p.name, p.avatar)
    \/ AddPlayerRead
    \/ AddPlayerWrite
    \/ JoinAck
    \/ UpdatePlayerSocketIdRead
    \/ UpdatePlayerSocketIdWrite
    \/ SetPlayerConnectedRead
    \/ SetPlayerConnectedWrite
    \/ RejoinAck

SpecNames == Init /\ [][NextNames]_vars

----------------------------------------------------------------------------
(* room:create. store is the record under one room code, TheCode; the records
   under the other codes are not stored by the model and are taken to be free. *)

TheCode == "QUIZ4X"
RoomCodes == {TheCode, "K7MN2P"}
MaxAttempts == 10

\* redis.exists(keys.room(roomCode))
Exists(roomCode) == roomCode = TheCode /\ store.exists

\* from the event through generateRoomCode to the answer of the first
\* redis.exists
RoomCreateStart(s) ==
    /\ Receive(s)
    /\ \E roomCode \in RoomCodes :
          procs' = Spawn([Idle EXCEPT !.op = "create", !.sock = s, !.ans = roomCode,
                                      !.pc = IF Exists(roomCode) THEN "exists" ELSE "setex",
                                      !.n = IF Exists(roomCode) THEN 1 ELSE 0])
    /\ out' = <<>>
    /\ UNCHANGED <<store, sockets, timing>>

\* the do-while after a code that was taken: while (attempts < 10) the next
\* draw and its redis.exists; at 10 attempts createRoom throws and the handler
\* catches
CreateRoomExists ==
    \E r \in Running :
    /\ r.pc = "exists"
    /\ IF r.n >= MaxAttempts
       THEN /\ out' = <<Fail(r.sock, "room:create", CatchError(r.op))>>
            /\ procs' = End(r)
       ELSE /\ out' = <<>>
            /\ \E roomCode \in RoomCodes :
                  procs' = Become(r, [r EXCEPT
                                         !.ans = roomCode,
                                         !.pc = IF Exists(roomCode) THEN "exists" ELSE "setex",
                                         !.n = IF Exists(roomCode) THEN r.n + 1 ELSE r.n])
    /\ UNCHANGED <<store, sockets, timing, events>>

\* redis.setex(keys.room(roomCode), ROOM_TTL, JSON.stringify(room))
CreateRoomSetex ==
    \E r \in Running :
    /\ r.pc = "setex"
    /\ store' = IF r.ans = TheCode THEN NewRoom(r.sock) ELSE store
    /\ procs' = Become(r, [r EXCEPT !.pc = "sadd"])
    /\ out' = <<>>
    /\ UNCHANGED <<sockets, timing, events>>

\* after redis.sadd createRoom returns: the handler joins the socket to the
\* room's channel, makes it a tv and acknowledges
RoomCreated ==
    \E r \in Running :
    /\ r.pc = "sadd"
    /\ sockets' = [sockets EXCEPT ![r.sock].role = "tv",
                                  ![r.sock].joined = @ \/ r.ans = TheCode]
    /\ out' = <<[Ack(r.sock, "room:create") EXCEPT !.roomCode = r.ans,
                                                    !.room = NewRoom(r.sock)]>>
    /\ procs' = End(r)
    /\ UNCHANGED <<store, timing, events>>

(* The creation scenario: no room yet; two clients create rooms and a player
   joins the room under TheCode. *)

InitCreate ==
    /\ store = NoRoom
    /\ sockets = [s \in SocketIds |-> NoSocketData]
    /\ procs = EmptyBag
    /\ out = <<>>
    /\ timers = NoTimer
    /\ startTimers = <<>>
    /\ now = 0
    /\ events = 0

NextCreate ==
    \/ \E s \in {TvSocket, "s1"} : RoomCreateStart(s)
    \/ CreateRoomExists
    \/ CreateRoomSetex
    \/ RoomCreated
    \/ JoinStart("s3", ClientName["s3"])
    \/ AddPlayerRead
    \/ AddPlayerWrite
    \/ JoinAck

SpecCreate == InitCreate /\ [][NextCreate]_vars

(* The resolution scenario: nobody answers the last question; the deadline
   and the host's answer:timeout resolve it. Under the scheduling of the event
   loop every continuation whose await has resolved is run, a timer that is
   due fires, and time passes; client events are under no obligation to
   arrive. *)
NextResolve ==
    \/ TimeoutStart(TvSocket)
    \/ TimerFire
    \/ QuestionTimeoutRead
    \/ CalculateQuestionResultsRead
    \/ UpdatePlayerScoreRead
    \/ UpdatePlayerScoreWrite
    \/ GetLeaderboardRead
    \/ UpdatePhaseRead
    \/ UpdatePhaseWrite
    \/ NextQuestionRead
    \/ NextQuestionWrite
    \/ EndGameRead
    \/ Tick

ResolveFairness ==
    /\ WF_vars(TimerFire)
    /\ WF_vars(QuestionTimeoutRead)
    /\ WF_vars(CalculateQuestionResultsRead)
    /\ WF_vars(UpdatePlayerScoreRead)
    /\ WF_vars(UpdatePlayerScoreWrite)
    /\ WF_vars(GetLeaderboardRead)
    /\ WF_vars(UpdatePhaseRead)
    /\ WF_vars(UpdatePhaseWrite)
    /\ WF_vars(NextQuestionRead)
    /\ WF_vars(NextQuestionWrite)
    /\ WF_vars(EndGameRead)
    /\ WF_vars(Tick)

SpecResolveFair == InitQuestion /\ [][NextResolve]_vars /\ ResolveFairness

(* The generation scenario: the host asks for a new quiz while the last
   question of the game is shown. *)
ProviderAnswers == {<<Question("C"), Question("D"), Question("A")>>, <<>>}

NextGenerate ==
    \/ \E request \in GenerateRequests : GenerateStart(TvSocket, request)
    \/ \E questions \in ProviderAnswers, failed \in BOOLEAN :
          GenerateQuizDone(questions, failed)
    \/ SetQuestionsRead
    \/ SetQuestionsWrite
    \/ NextResolve

SpecGenerate == InitQuestion /\ [][NextGenerate]_vars

----------------------------------------------------------------------------
(* A cache command that fails *)

\* a rejected promise nobody awaits: the timer callbacks have no catch
UnhandledRejection == Msg("", "unhandledRejection")

\* The Redis command a timer-driven transition is waiting for is rejected: the
\* await throws out of the RoomService method, out of questionTimeout,
\* advanceToNextQuestion, showQuestion or endGame, and out of the timer's
\* callback.
RedisFails ==
    \E r \in Running :
    /\ r.op \in {"questionTimeout", "advance"}
    /\ procs' = End(r)
    /\ out' = <<UnhandledRejection>>
    /\ UNCHANGED <<store, sockets, timing, events>>

(* The failure scenario: a game of two questions runs on its timers alone from
   the first question's deadline, after any of a few sets of answers, and any
   cache command of a transition may fail. *)
AnswerSets ==
    {<<>>,
     <<[playerId |-> "s1", questionIndex |-> 0, answer |-> "A", timeElapsed |-> 1000]>>,
     <<[playerId |-> "s1", questionIndex |-> 0, answer |-> "B", timeElapsed |-> 1000],
       [playerId |-> "s3", questionIndex |-> 0, answer |-> "A", timeElapsed |-> 2000]>>}

InitDeadline ==
    /\ store \in {[GameRoom EXCEPT !.phase = "question", !.currentAnswers = a] :
                     a \in AnswerSets}
    /\ sockets = GameSockets
    /\ procs = EmptyBag
    /\ out = <<>>
    /\ timers = Timeout("question", StartDelay + (DefaultTimeLimit + 1) * 1000)
    /\ startTimers = <<>>
    /\ now = StartDelay + (DefaultTimeLimit + 1) * 1000
    /\ events = 1

NextFailing ==
    \/ RedisFails
    \/ TimerFire
    \/ QuestionTimeoutRead
    \/ CalculateQuestionResultsRead
    \/ UpdatePlayerScoreRead
    \/ UpdatePlayerScoreWrite
    \/ GetLeaderboardRead
    \/ UpdatePhaseRead
    \/ UpdatePhaseWrite
    \/ NextQuestionRead
    \/ NextQuestionWrite
    \/ ShowQuestionRead
    \/ ClearCurrentAnswersRead
    \/ ClearCurrentAnswersWrite
    \/ SetQuestionStartTimeRead
    \/ SetQuestionStartTimeWrite
    \/ EndGameRead
    \/ Tick

SpecFailing == InitDeadline /\ [][NextFailing]_vars

(* The submission scenario: while the last question is shown every socket,
   the TV and a socket that never joined among them, sends answer:submit. *)
NextSubmit ==
    \/ \E s \in SocketIds : \E answer \in Answers : SubmitStart(s, answer)
    \/ RecordAnswerRead
    \/ RecordAnswerWrite
    \/ AnswerCount

SpecSubmit == InitQuestion /\ [][NextSubmit]_vars

(* The foreign-host scenario: the room under TheCode is showing a question;
   a socket that is not in the room creates a room of its own, which makes it
   a tv socket, and then sends room:update-settings and room:kick with the
   code of the first room. *)

ForeignSocket == "s2"

NextForeign ==
    \/ RoomCreateStart(ForeignSocket)
    \/ CreateRoomExists
    \/ CreateRoomSetex
    \/ RoomCreated
    \/ \E settings \in SettingsPatches : UpdateSettingsStart(ForeignSocket, settings)
    \/ UpdateSettingsRead
    \/ UpdateSettingsWrite
    \/ \E p \in PlayerSockets : RoomKickStart(ForeignSocket, p)
    \/ RemovePlayerRead
    \/ RemovePlayerWrite

SpecForeign == InitQuestion /\ [][NextForeign]_vars

(* The long-window scenario: the host set timeLimit to LongTimeLimit before the
   game; the last question was shown with that limit LateAnswer milliseconds
   ago, the ticks of those seconds have run, and the players answer now. *)

LongTimeLimit == 30

LateAnswer == 25000

InitLate ==
    /\ store = [GameRoom EXCEPT !.phase = "question", !.currentQuestionIndex = 1,
                                !.questionStartTime = RevealEnd,
                                !.settings.timeLimit = LongTimeLimit]
    /\ sockets = GameSockets
    /\ procs = EmptyBag
    /\ out = <<>>
    /\ timers = [QuestionTimer(RevealEnd, LongTimeLimit) EXCEPT
                    !.tickAt = @ + LateAnswer,
                    !.timeRemaining = @ - LateAnswer \div 1000]
    /\ startTimers = <<>>
    /\ now = RevealEnd + LateAnswer
    /\ events = 1

\* the players answer and the question runs to its deadline and is resolved
NextLate ==
    \/ \E s \in Players : \E answer \in Answers : SubmitStart(s, answer)
    \/ RecordAnswerRead
    \/ RecordAnswerWrite
    \/ AnswerCount
    \/ Tick
    \/ TimerFire
    \/ QuestionTimeoutRead
    \/ CalculateQuestionResultsRead
    \/ UpdatePlayerScoreRead
    \/ UpdatePlayerScoreWrite
    \/ GetLeaderboardRead
    \/ UpdatePhaseRead
    \/ UpdatePhaseWrite
    \/ NextQuestionRead
    \/ NextQuestionWrite
    \/ EndGameRead

SpecLate == InitLate /\ [][NextLate]_vars

\* the rejoin scenario with the rejoining sockets also answering
NextRebind ==
    \/ \E s \in {"s1", "s2"} : RejoinStart(s, ClientName[s])
    \/ UpdatePlayerSocketIdRead
    \/ UpdatePlayerSocketIdWrite
    \/ SetPlayerConnectedRead
    \/ SetPlayerConnectedWrite
    \/ RejoinAck
    \/ \E s \in {"s1", "s2"} : \E answer \in Answers : SubmitStart(s, answer)
    \/ RecordAnswerRead
    \/ RecordAnswerWrite
    \/ AnswerCount
    \/ TimerFire
    \/ QuestionTimeoutRead
    \/ CalculateQuestionResultsRead
    \/ UpdatePlayerScoreRead
    \/ UpdatePlayerScoreWrite
    \/ GetLeaderboardRead
    \/ UpdatePhaseRead
    \/ UpdatePhaseWrite

SpecRebind == InitAnswered /\ [][NextRebind]_vars

----------------------------------------------------------------------------
(* Claims *)

\* C2: in every reachable state no two distinct players of the room have names
\* that are equal case-insensitively, whatever joins and rejoins overlap.
C2_NamesUnique ==
    \A i, j \in DOMAIN store.players :
        i # j => ToLowerCase(store.players[i].name) # ToLowerCase(store.players[j].name)

\* C2 witness: two players are in the room and a room:rejoin that found no player
\* of its name, and so went on to addPlayer, was turned down there because a
\* join of the same name (in another case) was written in between.
C2_Witness ==
    /\ Len(store.players) = 2
    /\ \E k \in DOMAIN out :
          /\ out[k].ev = "room:rejoin"
          /\ ~out[k].ok
          /\ out[k].error = "Failed to rejoin room"
          /\ \E i \in DOMAIN store.players :
                /\ store.players[i].name # ClientName[out[k].to]
                /\ ToLowerCase(store.players[i].name) = ToLowerCase(ClientName[out[k].to])

\* C10: a join is admitted only into a room that holds fewer than maxPlayers
\* players: every addPlayer write finds fewer than maxPlayers players stored.
C10_NoJoinIntoFullRoom ==
    [][AddPlayerWrite => Len(store.players) < store.settings.maxPlayers]_vars

\* C1: currentAnswers never holds two answers with the same playerId and the
\* same questionIndex, also when answer:submit handlers of one player overlap.
C1_OneAnswerPerPlayer ==
    \A i, j \in DOMAIN store.currentAnswers :
        i # j => ~ /\ store.currentAnswers[i].playerId = store.currentAnswers[j].playerId
                   /\ store.currentAnswers[i].questionIndex
                         = store.currentAnswers[j].questionIndex

\* does message m carry a correctAnswer: as a field of its own or inside the
\* questions of a room record
CarriesCorrectAnswer(m) ==
    \/ m.correctAnswer # ""
    \/ \E q \in DOMAIN m.room.questions : m.room.questions[q].correctAnswer # ""

\* C3: while the stored phase is question, no message sent to a player's socket
\* (a broadcast to the room or an ack to a player) carries a correctAnswer.
C3_NoCorrectAnswerDuringQuestion ==
    store.phase = "question" =>
        \A k \in DOMAIN out :
            out[k].to \in PlayerSockets \cup {"room"} => ~CarriesCorrectAnswer(out[k])

\* C4: no step lowers the stored score of a player.
C4_ScoreNeverDecreases ==
    [][\A i \in DOMAIN store.players \cap DOMAIN store'.players :
           store'.players[i].score >= store.players[i].score]_vars

\* C5: when a question's resolution is announced (game:reveal), every player of
\* its results has the stored score and streak the resolution computed from the
\* values before it: score + pointsEarned, and streak + 1 if correct, else 0.
C5_ResolutionApplied ==
    \A k \in DOMAIN out :
        out[k].ev = "game:reveal" =>
            \A x \in DOMAIN out[k].results :
                LET result == out[k].results[x]
                    i == FindById(store.players, result.playerId) IN
                /\ i # 0
                /\ store.players[i].score = result.newScore
                /\ store.players[i].streak = result.streak

\* C6: the stored phase is question exactly when a question deadline timer is
\* pending in GameService.timers.
C6_QuestionIffDeadlinePending ==
    (store.phase = "question") <=> (timers.kind = "question")

\* C7: currentQuestionIndex is between 0 and the number of questions, and equals
\* the number of questions only when the phase is final.
C7_IndexInRange ==
    /\ store.currentQuestionIndex \in 0..Len(store.questions)
    /\ store.currentQuestionIndex = Len(store.questions) => store.phase = "final"

\* C8: when the server broadcasts answer:all-received, the question deadline is
\* cancelled and the question is resolved: no deadline timer is pending and the
\* phase is reveal.
C8_AllReceivedResolves ==
    \A k \in DOMAIN out :
        out[k].ev = "answer:all-received" =>
            /\ timers.kind # "question"
            /\ store.phase = "reveal"

\* C9: an answer sent after the end of the question's window, later than
\* timeLimit * 1000 ms after questionStartTime, is not accepted: every recorded
\* answer has a timeElapsed of at most timeLimit * 1000.
C9_NoAnswerAfterWindow ==
    \A i \in DOMAIN store.currentAnswers :
        store.currentAnswers[i].timeElapsed <= store.settings.timeLimit * 1000

\* C11: a game:start from a caller whose role is not tv, or with fewer than
\* minPlayers players, or with no questions, is turned down with the room, the
\* timers and the running handlers unchanged and nothing but the failure ack
\* sent; a game:start is turned down for no other reason, so from the TV with
\* exactly minPlayers players and a question it is accepted, and startGame's
\* write leaves the phase starting.
StartAllowed(s) ==
    /\ sockets[s].role = "tv"
    /\ Len(store.players) >= store.settings.minPlayers
    /\ Len(store.questions) >= 1

C11_StartStep ==
    /\ \A s \in SocketIds :
          (events' = events + 1 /\ out' # <<>> /\ out'[1].ev = "game:start" /\ out'[1].to = s)
              => /\ ~StartAllowed(s)
                 /\ Len(out') = 1
                 /\ ~out'[1].ok
                 /\ UNCHANGED <<store, sockets, procs, timers, startTimers>>
    /\ \A r \in BagToSet(procs') :
          (r.op = "start" /\ r.pc = "startGame" /\ CopiesIn(r, procs') > CopiesIn(r, procs))
              => /\ StartAllowed(r.sock)
                 /\ out' = <<>>
                 /\ UNCHANGED <<store, sockets, timers, startTimers>>
    /\ \A r \in BagToSet(procs) :
          (r.op = "start" /\ r.pc = "updatePhase_w" /\ CopiesIn(r, procs') < CopiesIn(r, procs))
              => /\ store'.phase = "starting"
                 /\ UNCHANGED <<timers, startTimers>>

C11_StartGuarded == [][C11_StartStep]_vars

\* C11 witness: the TV's game:start with exactly minPlayers players has written
\* phase starting, and a player's game:start has just been turned down.
C11_Witness ==
    /\ store.phase = "starting"
    /\ Len(store.players) = store.settings.minPlayers
    /\ \E r \in BagToSet(procs) : r.op = "start" /\ r.pc = "gameSession" /\ r.sock = TvSocket
    /\ out = <<Fail("s1", "game:start", "Only host can start game")>>

\* C12: a timer callback that fires after the room has left the phase its timer
\* was set for (starting for the delay after game:start, question for the
\* deadline, reveal for the reveal timer) changes nothing of the room and emits
\* nothing, at any of its steps.
C12_StaleCallbackStep ==
    \A r \in BagToSet(procs) :
        (r.stale /\ CopiesIn(r, procs') < CopiesIn(r, procs))
            => (store' = store /\ out' = <<>>)

C12_StaleCallbackInert == [][C12_StaleCallbackStep]_vars

\* C13: the mutations of a room are serialized: whenever an operation writes the
\* room record, the copy it read and computed its write from is the record that
\* is stored at that moment, so no committed write is overwritten by a write
\* computed from an older read.
C13_WriteStep ==
    \A r \in BagToSet(procs) :
        (CopiesIn(r, procs') < CopiesIn(r, procs) /\ r.tmp.exists /\ store' # store)
            => r.tmp = store

C13_WritesSerialized == [][C13_WriteStep]_vars

\* C14: after a successful game:start the room is first told game:starting and
\* counted down, and game:started is broadcast only when COUNTDOWN_DURATION
\* seconds have passed since the game:start arrived.
C14_StartedStep ==
    \A r \in BagToSet(procs) :
        (/\ r.op = "start"
         /\ CopiesIn(r, procs') < CopiesIn(r, procs)
         /\ \E i \in DOMAIN out' : out'[i].ev = "game:started")
            => now' >= r.te + COUNTDOWN_DURATION * 1000

C14_StartedAfterCountdown == [][C14_StartedStep]_vars

\* C15: when game:restart has reset the room, no timer of the room is pending,
\* the phase is lobby, every score and streak is 0, there are no questions and
\* no answers, the index is 0, no question start time is kept, and the players
\* (but for score and streak) and the settings are as they were.
C15_RestartStep ==
    \A r \in BagToSet(procs) :
        (r.op = "restart" /\ r.pc = "resetRoom_w" /\ CopiesIn(r, procs') < CopiesIn(r, procs))
            => /\ timers' = NoTimer
               /\ startTimers' = <<>>
               /\ store'.phase = "lobby"
               /\ store'.questions = <<>>
               /\ store'.currentAnswers = <<>>
               /\ store'.currentQuestionIndex = 0
               /\ store'.questionStartTime = 0
               /\ store'.settings = store.settings
               /\ store'.players = [i \in DOMAIN store.players |->
                                       [store.players[i] EXCEPT !.score = 0, !.streak = 0]]

C15_RestartResets == [][C15_RestartStep]_vars

\* C16: when endGame broadcasts game:finished the phase is final, no deadline
\* or reveal timer of the room is pending, the message is the only one sent,
\* its standings are the room's players by score, highest first, and its winner
\* is the first of the standings, or is missing when there are no players.
C16_FinishedStep ==
    \A i \in DOMAIN out' :
        out'[i].ev = "game:finished"
            => /\ Len(out') = 1
               /\ store'.phase = "final"
               /\ timers'.kind = "none"
               /\ out'[i].standings = getLeaderboard(store')
               /\ \A j \in DOMAIN store'.players :
                     out'[i].standings # <<>>
                         /\ out'[i].standings[1].score >= store'.players[j].score
               /\ out'[i].winner = IF out'[i].standings = <<>> THEN ""
                                   ELSE out'[i].standings[1].playerId

C16_EndGameFinal == [][C16_FinishedStep]_vars

\* C17: in the game:reveal sent at a question's deadline every result without
\* an answer is not correct and earns 0 points, so with no answers at all no
\* result is correct; questionWinner is null exactly when no result is correct,
\* and otherwise names a correct result that no correct result beats in
\* pointsEarned.
C17_QuestionWinner ==
    \A k \in DOMAIN out :
        (out[k].ev = "game:reveal" /\ out[k].winner # "")
            => LET results == out[k].results IN
               /\ out[k].correctAnswer # ""
               /\ \A i \in DOMAIN results :
                     results[i].answer = ""
                         => ~results[i].isCorrect /\ results[i].pointsEarned = 0
               /\ out[k].winner = "null" <=> \A i \in DOMAIN results : ~results[i].isCorrect
               /\ out[k].winner # "null"
                     => \E i \in DOMAIN results :
                           /\ results[i].playerId = out[k].winner
                           /\ results[i].isCorrect
                           /\ \A j \in DOMAIN results :
                                 results[j].isCorrect
                                     => results[j].pointsEarned <= results[i].pointsEarned

\* C18: a result that is not correct earns 0 points; a correct one, given e ms
\* after the question started (e = 0 included) with a time limit of L seconds
\* by a player whose streak was s, earns
\* 1000 + floor(1000 * max(0, 1 - e / (1000 L)) * 0.5) + min(100 s, 500).
ClaimedPoints(isCorrect, e, L, s) ==
    IF ~isCorrect THEN 0
    ELSE 1000 + (IF e >= 1000 * L THEN 0 ELSE (1000 * (1000 * L - e)) \div (2 * 1000 * L))
              + (IF 100 * s < 500 THEN 100 * s ELSE 500)

C18_PointsFormula ==
    \A r \in BagToSet(procs) :
        \A i \in DOMAIN r.results :
            LET res == r.results[i]
                q == QuestionAt(r.room, r.n)
                L == IF q.timeLimit # 0 THEN q.timeLimit ELSE DefaultTimeLimit
            IN res.pointsEarned =
                  ClaimedPoints(res.isCorrect, res.timeElapsed, L,
                                IF res.isCorrect THEN res.streak - 1 ELSE 0)

\* C19: a player is added to the room only while the stored phase is lobby,
\* also when the join overlaps a game:start.
C19_AddStep == Len(store'.players) > Len(store.players) => store.phase = "lobby"

C19_NewPlayerOnlyInLobby == [][C19_AddStep]_vars

\* C20: a room:rejoin under the name of an existing player adds no player and
\* leaves every player's name, score, streak and position as stored, and its
\* room:player-rejoined carries the old id and the updated player, whose id is
\* the calling socket and who is connected.
C20_RejoinStep ==
    /\ \A r \in BagToSet(procs) :
          (/\ r.op = "rejoin"
           /\ r.pc \in {"updatePlayerSocketId_w", "setPlayerConnected_w"}
           /\ CopiesIn(r, procs') < CopiesIn(r, procs))
              => /\ Len(store'.players) = Len(store.players)
                 /\ \A i \in DOMAIN store.players :
                       /\ store'.players[i].name = store.players[i].name
                       /\ store'.players[i].score = store.players[i].score
                       /\ store'.players[i].streak = store.players[i].streak
    /\ \A r \in BagToSet(procs) :
          (r.op = "rejoin" /\ r.pc = "rejoinAck" /\ CopiesIn(r, procs') < CopiesIn(r, procs))
              => \E k \in DOMAIN out' :
                    /\ out'[k].ev = "room:player-rejoined"
                    /\ out'[k].pid = r.old
                    /\ out'[k].player # NoPlayer
                    /\ out'[k].player.id = r.sock
                    /\ out'[k].player.isConnected
                    /\ ToLowerCase(out'[k].player.name) = ToLowerCase(r.name)

C20_RejoinRebinds == [][C20_RejoinStep]_vars

\* C21: a player socket's disconnect changes nothing of the stored room but
\* the isConnected flag of that socket's player, which becomes false; a tv
\* socket's disconnect changes nothing of the room and broadcasts
\* room:tv-disconnected.
C21_DisconnectStep ==
    /\ \A r \in BagToSet(procs) :
          (r.op = "disconnect" /\ CopiesIn(r, procs') < CopiesIn(r, procs))
              => \/ store' = store
                 \/ \E i \in DOMAIN store.players :
                       /\ store.players[i].id = r.pid
                       /\ store' = [store EXCEPT !.players[i].isConnected = FALSE]
    /\ (sockets[TvSocket].connected /\ ~sockets'[TvSocket].connected)
          => store' = store /\ out' = <<Broadcast("room:tv-disconnected")>>

C21_DisconnectFrame == [][C21_DisconnectStep]_vars

\* C22: a host-only operation invoked by a socket whose role is not tv is
\* turned down with an 'Only host ...' error and nothing else happens: the
\* room, the timers and the running handlers stay as they are and nothing is
\* broadcast; no handler of a host-only operation runs for such a socket;
\* room:kick runs only for a socket whose role is tv or whose id is the
\* room's tvSocketId.
HostEvents ==
    {"game:start", "game:next-question", "game:pause", "game:resume", "game:end",
     "game:restart", "answer:timeout", "room:update-settings", "quiz:generate",
     "quiz:select-category", "quiz:set-options"}

OnlyHostErrors ==
    {"Only host can start game", "Only host can control game", "Only host can pause",
     "Only host can resume", "Only host can end game", "Only host can restart",
     "Only host can update settings", "Only host can generate quiz",
     "Only host can select category", "Only host can set options",
     "Only host can kick players"}

C22_HostOnlyStep ==
    /\ \A s \in SocketIds : \A k \in DOMAIN out' :
          (/\ events' = events + 1
           /\ out'[k].to = s
           /\ out'[k].ev \in HostEvents
           /\ sockets[s].role # "tv")
              => /\ out' = <<out'[k]>>
                 /\ ~out'[k].ok
                 /\ out'[k].error \in OnlyHostErrors
                 /\ UNCHANGED <<store, procs, timers, startTimers>>
    /\ \A s \in SocketIds : \A k \in DOMAIN out' :
          (/\ events' = events + 1
           /\ out'[k].to = s
           /\ out'[k].ev = "room:kick"
           /\ sockets[s].role # "tv"
           /\ store.tvSocketId # s)
              => /\ out' = <<out'[k]>>
                 /\ ~out'[k].ok
                 /\ out'[k].error \in OnlyHostErrors
                 /\ UNCHANGED <<store, procs, timers, startTimers>>
    /\ \A r \in BagToSet(procs') :
          (events' = events + 1 /\ CopiesIn(r, procs') > CopiesIn(r, procs))
              => /\ EventOf(r.op) \in HostEvents => sockets[r.sock].role = "tv"
                 /\ r.op = "kick" => (sockets[r.sock].role = "tv" \/ store.tvSocketId = r.sock)

C22_HostOnly == [][C22_HostOnlyStep]_vars

\* C23: the stored settings always have questionCount in 5..30, timeLimit in
\* 5..60 and a difficulty of easy, medium, hard or mixed.
C23_SettingsInRange ==
    store.exists =>
        /\ store.settings.questionCount \in 5..30
        /\ store.settings.timeLimit \in 5..60
        /\ store.settings.difficulty \in {"easy", "medium", "hard", "mixed"}

\* C24: every stored player has a name of 1 to 20 characters, each a letter, a
\* digit or a space, and an avatar of the sixteen; a room:join or room:rejoin
\* with any other name or avatar stores nothing.
C24_ClaimedName(name) ==
    /\ Len(name) \in 1..20
    /\ \A i \in 1..Len(name) : name[i] \in AlphaNumeric \cup {" "}

C24_PlayersValid ==
    \A i \in 1..Len(store.players) :
        /\ C24_ClaimedName(store.players[i].name)
        /\ store.players[i].avatar \in AVATAR_EMOJIS

\* C25: createRoom never writes over a record that exists: when the write of a
\* createRoom call lands on a code, no record is stored under that code, also
\* when two calls overlap and draw the same code.
C25_CreateStep ==
    \A r \in Running :
        (/\ r.op = "create"
         /\ r.pc = "setex"
         /\ r.ans = TheCode
         /\ CopiesIn(r, procs') < CopiesIn(r, procs))
        => ~store.exists

C25_CreateNeverOverwrites == [][C25_CreateStep]_vars

\* C26: a room in phase reveal, whether the server's deadline or the host's
\* answer:timeout brought it there, goes on to a question or to final without
\* any client input: it never remains in reveal forever.
C26_RevealGoesOn ==
    (store.exists /\ store.phase = "reveal")
        ~> (store.exists /\ store.phase \in {"question", "final"})

\* C27: while the room stays out of the lobby its question list is fixed: no
\* step replaces room.questions or sets currentQuestionIndex back.
C27_QuestionsStep ==
    (store.exists /\ store.phase # "lobby" /\ store'.phase # "lobby")
        => /\ store'.questions = store.questions
           /\ store'.currentQuestionIndex >= store.currentQuestionIndex

C27_QuestionsFixed == [][C27_QuestionsStep]_vars

\* C28: when a cache command fails part-way through a phase transition, the
\* room is stored exactly as it was before the transition began: the failed
\* transition has written nothing.
C28_FailureStep ==
    \A r \in Running :
        (/\ r.op \in {"questionTimeout", "advance"}
         /\ CopiesIn(r, procs') < CopiesIn(r, procs)
         /\ out' = <<UnhandledRejection>>)
        => store' = r.before

C28_FailureLeavesRoom == [][C28_FailureStep]_vars

\* C29: at the step that broadcasts game:question the room is stored with no
\* current answers, with questionStartTime the time showQuestion took for this
\* question and with phase question, and the one pending timer is the deadline
\* timeLimit + 1 seconds ahead.
C29_ShowStep ==
    \A r \in Running :
        (/\ r.pc = "updatePhase_w"
         /\ r.phase = "question"
         /\ CopiesIn(r, procs') < CopiesIn(r, procs)
         /\ \E k \in DOMAIN out' : out'[k].ev = "game:question")
        => /\ store'.phase = "question"
           /\ store'.currentAnswers = <<>>
           /\ store'.questionStartTime = r.te
           /\ timers' = QuestionTimer(now, store'.settings.timeLimit)

C29_QuestionStartsClean == [][C29_ShowStep]_vars

\* C30: an answer is written into currentAnswers only while the stored phase
\* is question and the answer's questionIndex is the stored
\* currentQuestionIndex, whatever else runs at the same time.
C30_AnswerStep ==
    \A r \in Running :
        (/\ r.op = "submit"
         /\ r.pc = "recordAnswer_w"
         /\ CopiesIn(r, procs') < CopiesIn(r, procs))
        => /\ store.phase = "question"
           /\ store.currentQuestionIndex = r.n

C30_AnswerWrittenInQuestion == [][C30_AnswerStep]_vars

\* C31: a resolution stores all its players' new scores in one room update:
\* a step by which a resolution changes the stored players changes the score
\* of every player whose result earned points, so that no stored room shows
\* some results applied and others not.
C31_ResolveStep ==
    \A r \in Running :
        (/\ r.pc = "updatePlayerScore_w"
         /\ CopiesIn(r, procs') < CopiesIn(r, procs)
         /\ store'.players # store.players)
        => \A k \in DOMAIN r.results :
              LET before == FindById(store.players, r.results[k].playerId)
                  after == FindById(store'.players, r.results[k].playerId) IN
              (before # 0 /\ after # 0 /\ r.results[k].pointsEarned > 0)
                  => store'.players[after].score # store.players[before].score

C31_ScoresInOneUpdate == [][C31_ResolveStep]_vars

\* C32: the tick stream is cancelled when the room leaves the question phase:
\* timer:tick and timer:end are emitted only while the stored phase is
\* question.
C32_TicksOnlyInQuestion ==
    \A k \in DOMAIN out :
        out[k].ev \in {"timer:tick", "timer:end"} => store.phase = "question"

\* C33: calculateQuestionResults, on the stored room and its current question,
\* returns one result per player of the room, sorted by pointsEarned
\* descending, results of equal pointsEarned in ascending timeElapsed order.
C33_StoredResults ==
    calculateQuestionResults(
        store, QuestionAt(store, store.currentQuestionIndex),
        AnswersOf(store.currentAnswers, store.currentQuestionIndex))

C33_ResultsSorted ==
    (store.exists /\ QuestionAt(store, store.currentQuestionIndex) # NoQuestion)
        => /\ Len(C33_StoredResults) = Len(store.players)
           /\ \A p \in DOMAIN store.players :
                 Cardinality({i \in DOMAIN C33_StoredResults :
                                C33_StoredResults[i].playerId = store.players[p].id}) = 1
           /\ \A i, j \in DOMAIN C33_StoredResults :
                 i < j =>
                    /\ C33_StoredResults[i].pointsEarned >= C33_StoredResults[j].pointsEarned
                    /\ C33_StoredResults[i].pointsEarned = C33_StoredResults[j].pointsEarned
                          => C33_StoredResults[i].timeElapsed <= C33_StoredResults[j].timeElapsed

\* C34: getLeaderboard returns one entry per player of the room it reads, by
\* score descending, players of equal score in the order of room.players, with
\* ranks 1, 2, ..., n by position, and the call leaves the stored room, and so
\* the order of its players, as it was.
C34_Ranked(room) ==
    LET lb == getLeaderboard(room) IN
    /\ Len(lb) = Len(room.players)
    /\ \A p \in DOMAIN room.players :
          Cardinality({i \in DOMAIN lb :
                         /\ lb[i].playerId = room.players[p].id
                         /\ lb[i].score = room.players[p].score
                         /\ lb[i].name = room.players[p].name}) = 1
    /\ \A i \in DOMAIN lb : lb[i].rank = i
    /\ \A i, j \in DOMAIN lb :
          i < j => /\ lb[i].score >= lb[j].score
                   /\ lb[i].score = lb[j].score
                        => FindById(room.players, lb[i].playerId)
                             < FindById(room.players, lb[j].playerId)

C34_LeaderboardStep ==
    /\ store.exists => C34_Ranked(store)
    /\ store'.exists => C34_Ranked(store')
    /\ \A r \in Running :
          (r.pc = "getLeaderboard" /\ CopiesIn(r, procs') < CopiesIn(r, procs))
              => store' = store

C34_Leaderboard == [][C34_LeaderboardStep]_vars

\* a leaderboard has been handed on in which the second player of the room,
\* with the higher score, comes first
C34_Witness ==
    \E r \in Running :
        /\ Len(r.standings) = 2
        /\ r.standings[1].playerId = "s3"
        /\ r.standings[1].score > r.standings[2].score
        /\ r.standings = getLeaderboard(store)

\* C35: each question index is resolved at most once: when a resolution (of
\* the deadline or of answer:timeout) takes its results and goes on to write
\* scores, the stored phase is question, which a finished resolution has left,
\* and no other resolution of the same index is writing scores.
C35_Resolving(r) ==
    /\ r.op \in {"questionTimeout", "timeout"}
    /\ r.pc \notin {"questionTimeout", "calculateQuestionResults"}

C35_ResolveStep ==
    \A r \in Running :
        (/\ r.pc = "calculateQuestionResults"
         /\ CopiesIn(r, procs') < CopiesIn(r, procs)
         /\ \E r2 \in BagToSet(procs') :
               C35_Resolving(r2) /\ CopiesIn(r2, procs') > CopiesIn(r2, procs))
        => /\ store.phase = "question"
           /\ \A r3 \in Running : ~(C35_Resolving(r3) /\ r3.n = r.n)

C35_ResolvedOnce == [][C35_ResolveStep]_vars

\* C36: a room whose stored phase is final stays final until a restart takes
\* it to the lobby; while it is final no timer is pending and no
\* game:question, game:reveal or timer:tick is emitted.
C36_FinalStep ==
    (store.exists /\ store.phase = "final")
        => /\ store'.phase \in {"final", "lobby"}
           /\ store'.phase = "final"
                => /\ timers'.kind = "none"
                   /\ timers'.tickAt = 0
                   /\ startTimers' = <<>>
                   /\ \A k \in DOMAIN out' :
                         out'[k].ev \notin {"game:question", "game:reveal", "timer:tick"}

C36_FinalStays == [][C36_FinalStep]_vars

\* C37: every answer stored in currentAnswers carries the id of a player of
\* the room: a socket that is not one of the room's players adds no answer.
C37_AnswersOfPlayers ==
    store.exists =>
        \A i \in DOMAIN store.currentAnswers :
            FindById(store.players, store.currentAnswers[i].playerId) # 0

(* C38: a host-only operation addressed to the room changes it only when the
   calling socket is the room's own host (the socket that created it, its
   tvSocketId); a socket that holds the role tv from creating another room
   cannot reconfigure the room or kick its players. Stated on every step of
   a settings or kick invocation that writes the room. *)
C38_HostStep ==
    \A r \in DOMAIN procs :
        (/\ r.op \in {"settings", "kick"}
         /\ CopiesIn(r, procs') < CopiesIn(r, procs)
         /\ store' # store)
            => r.sock = store.tvSocketId

C38_OnlyOwnHost == [][C38_HostStep]_vars

\* C39: the time limit used for the time bonus at resolution is the timeLimit
\* broadcast in game:question and used for the ticks and the deadline
\* (room.settings.timeLimit): a correct answer given before the broadcast window
\* ends earns the bonus in proportion to the part of that window that was left.
C39_BonusOfBroadcastLimit ==
    \A r \in BagToSet(procs) :
        \A i \in DOMAIN r.results :
            LET res == r.results[i] IN
            (/\ res.isCorrect
             /\ res.timeElapsed > 0
             /\ res.timeElapsed < r.room.settings.timeLimit * 1000)
                => res.pointsEarned =
                      calculatePoints(TRUE, res.timeElapsed, r.room.settings.timeLimit,
                                      res.streak - 1)

\* the answer was sent by a socket that is bound to a player of the room, by
\* its join or by a rejoin
C40_OfPlayer(answer) == sockets[answer.playerId].playerId = answer.playerId

\* the resolution's results carry every answer of a player it was given
C40_Attributed ==
    \A r \in Running :
        r.results # <<>>
            => \A k \in DOMAIN r.answers :
                  C40_OfPlayer(r.answers[k])
                      => \E i \in DOMAIN r.results :
                            /\ r.results[i].answer = r.answers[k].answer
                            /\ r.results[i].timeElapsed = r.answers[k].timeElapsed

\* no two stored answers to one question come from sockets of the same player
\* (the sockets that hold the same name)
C40_OneAnswer ==
    \A i, j \in DOMAIN store.currentAnswers :
        (/\ i # j
         /\ store.currentAnswers[i].questionIndex = store.currentAnswers[j].questionIndex
         /\ C40_OfPlayer(store.currentAnswers[i])
         /\ C40_OfPlayer(store.currentAnswers[j]))
            => ToLowerCase(ClientName[store.currentAnswers[i].playerId])
                  # ToLowerCase(ClientName[store.currentAnswers[j].playerId])

\* C40: when a player has answered a question and then rejoins, which binds
\* the player to a new id, before the question is resolved, the resolution
\* still attributes the stored answer to the player, and no second answer of
\* the player is recorded under the new id.
C40_AnswerSurvivesRejoin == C40_Attributed /\ C40_OneAnswer

============================================================================
